---- MODULE Spec2Model ----
(***************************************************************************)
(* Model of the Markdown -> atlas_doc_format converter                     *)
(* (markdown-to-atlas-doc.js: parseInlineFormatting, parseTable,           *)
(* countHeadings, convertMarkdownToAtlasDoc), of addWarningPanelToAtlas    *)
(* (content-processor.js) and of the page writes of the Confluence         *)
(* publisher (index.js, page-manager.js, hierarchy-manager.js).            *)
(*                                                                         *)
(* Text is modelled by TLA+ strings, character by character: every regular *)
(* expression of the source is an operator that scans the string as the    *)
(* regular expression does.                                                *)
(***************************************************************************)
EXTENDS Integers, Sequences, FiniteSets, TLC

(***************************************************************************)
(* Bounds of the model.                                                    *)
(***************************************************************************)
\* number of tokens an inline-formatting input line is built from
MaxInlineTokens == 5

\* number of lines of a Markdown input made of list lines
MaxLines == 5

\* number of lines of a Markdown input made of blocks of every kind
MaxBlocks == 3

\* number of lines of a Markdown input made of table lines
MaxTableLines == 4

\* number of lines of a Markdown input made of headings
MaxHeadingLines == 4

\* number of lines of a Markdown input that is converted more than once
MaxRepeatLines == 2

\* number of calls of convertMarkdownToAtlasDoc in a row
MaxCalls == 3

(***************************************************************************)
(* Strings.                                                                *)
(***************************************************************************)
\* the character at position i (1-based), "" past the end
Ch(s, i) == IF i >= 1 /\ i <= Len(s) THEN SubSeq(s, i, i) ELSE ""

\* s.substring(i-1): the suffix that starts at position i
From(s, i) == SubSeq(s, i, Len(s))

\* the literal lit occurs in s at position i
StartsWithAt(s, i, lit) ==
    /\ i >= 1
    /\ i + Len(lit) - 1 <= Len(s)
    /\ SubSeq(s, i, i + Len(lit) - 1) = lit

\* String.prototype.startsWith
StartsWith(s, lit) == StartsWithAt(s, 1, lit)

\* String.prototype.includes
Includes(s, lit) == \E i \in 1..(Len(s) - Len(lit) + 1) : StartsWithAt(s, i, lit)

\* the characters the regular expression class \s matches (those the model uses)
WS == {" ", "\t", "\n", "\r"}

Digit == {"0", "1", "2", "3", "4", "5", "6", "7", "8", "9"}

\* A scan from left to right: the first position in i..n that P holds of,
\* n+1 if there is none
FirstWhere(i, n, P(_)) ==
    IF i > n THEN n + 1
    ELSE CHOOSE k \in i..(n + 1) : /\ k = n + 1 \/ P(k)
                                   /\ \A m \in i..(k - 1) : ~P(m)

\* the first position >= i of s whose character is in set, Len(s)+1 if none
FirstIn(s, i, set) == FirstWhere(i, Len(s), LAMBDA k : Ch(s, k) \in set)

\* the first position >= i of s whose character is not in set, Len(s)+1 if none
FirstNotIn(s, i, set) == FirstWhere(i, Len(s), LAMBDA k : Ch(s, k) \notin set)

\* the last position <= i of s whose character is not in set, 0 if none
LastNotIn(s, i, set) ==
    IF i < 1 THEN 0
    ELSE CHOOSE k \in 0..i : /\ k = 0 \/ Ch(s, k) \notin set
                             /\ \A m \in (k + 1)..i : Ch(s, m) \in set

\* every character of s is in set
AllIn(s, set) == FirstNotIn(s, 1, set) > Len(s)

\* String.prototype.trim
Trim(s) == SubSeq(s, FirstNotIn(s, 1, WS), LastNotIn(s, Len(s), WS))

\* the first position >= i at which lit occurs in s, Len(s)+1 if none
IndexOf(s, lit, i) == FirstWhere(i, Len(s), LAMBDA k : StartsWithAt(s, k, lit))

\* the decimal digits of n, as template literals print a number
RECURSIVE NatToStr(_)
NatToStr(n) ==
    LET d == <<"0", "1", "2", "3", "4", "5", "6", "7", "8", "9">>
    IN  IF n < 10 THEN d[n + 1] ELSE NatToStr(n \div 10) \o d[(n % 10) + 1]

\* Array.prototype.join
RECURSIVE Join(_, _)
Join(seq, sep) ==
    IF Len(seq) = 0 THEN ""
    ELSE IF Len(seq) = 1 THEN seq[1]
    ELSE seq[1] \o sep \o Join(Tail(seq), sep)

\* String.prototype.split on a one-character separator
RECURSIVE Split(_, _)
SplitAt(s, sep, k) ==
    IF k > Len(s) THEN <<s>>
    ELSE <<SubSeq(s, 1, k - 1)>> \o Split(From(s, k + 1), sep)

Split(s, sep) == SplitAt(s, sep, FirstIn(s, 1, {sep}))

(***************************************************************************)
(* Nodes of the document.                                                  *)
(***************************************************************************)
\* createTextNode: the marks key exists only when there are marks
createTextNode(text, marks) ==
    IF Len(marks) > 0
    THEN [type |-> "text", text |-> text, marks |-> marks]
    ELSE [type |-> "text", text |-> text]

\* createMark (the attrs object is empty for strong, em and code)
createMark(type) == [type |-> type]

\* the link mark the tokenizer builds inline
LinkMark(url) == [type |-> "link", attrs |-> [href |-> url]]

(***************************************************************************)
(* parseInlineFormatting.                                                  *)
(***************************************************************************)
\* the control character U+0001 that delimits a placeholder token (a TLA+
\* string cannot hold it: the model writes it as an at sign)
SOH == "@"

\* the backtick (a TLA+ string cannot hold it: the model writes it as an
\* apostrophe, a character no pattern of the source treats specially)
BT == "'"

PlaceholderPrefix == SOH \o "PLACEHOLDER"

\* the token `\u0001PLACEHOLDER${id}\u0001`
PlaceholderToken(id) == PlaceholderPrefix \o NatToStr(id) \o SOH

\* A match of  open ([^x]+) close  at position i of s, where x is the one
\* character both delimiters are made of: the position of the last character
\* of the match, 0 when there is no match at i. j is the position of the
\* first x after the opening delimiter.
DelimMatchEndAt(s, i, delim, j) ==
    IF j > i + Len(delim) /\ StartsWithAt(s, j, delim) THEN j + Len(delim) - 1 ELSE 0

DelimMatchEnd(s, i, delim, x) ==
    IF ~StartsWithAt(s, i, delim) THEN 0
    ELSE DelimMatchEndAt(s, i, delim, FirstIn(s, i + Len(delim), {x}))

\* A match of  \[([^\]]+)\]\(([^)]+)\)  at position i of s: the positions of
\* the closing bracket and of the closing parenthesis, <<0, 0>> when there is
\* no match at i. j is the position of the first "]" after the "[", k the
\* position of the first ")" after the "(".
LinkMatchParen(j, k, len) == IF k > j + 2 /\ k <= len THEN <<j, k>> ELSE <<0, 0>>

LinkMatchBracket(s, i, j) ==
    IF j > i + 1 /\ j <= Len(s) /\ Ch(s, j + 1) = "("
    THEN LinkMatchParen(j, FirstIn(s, j + 2, {")"}), Len(s))
    ELSE <<0, 0>>

LinkMatch(s, i) ==
    IF Ch(s, i) # "[" THEN <<0, 0>> ELSE LinkMatchBracket(s, i, FirstIn(s, i + 1, {"]"}))

\* the callback of a pass: the text and the placeholder map after one more
\* placeholder, whose id is the number of placeholders made so far
WithPlaceholder(acc, entry) ==
    [out |-> acc.out \o PlaceholderToken(Len(acc.ph)), ph |-> Append(acc.ph, entry)]

WithText(acc, text) == [acc EXCEPT !.out = @ \o text]

\* what one match of a delimited span adds: with skip, a match that contains
\* a placeholder is returned unchanged (the bold and italic passes)
DelimReplace(acc, match, delim, mark, skip) ==
    IF skip /\ Includes(match, PlaceholderPrefix)
    THEN WithText(acc, match)
    ELSE WithPlaceholder(acc, [type |-> mark,
                               text |-> SubSeq(match, Len(delim) + 1,
                                               Len(match) - Len(delim))])

\* One substitution pass over a delimited span,
\*   processed.replace(/delim([^x]+)delim/g, callback):
\* acc = [out, ph] is the text produced so far and the placeholder map (the
\* entry at index n+1 is the one of placeholderId n). The matches are found
\* from left to right, each search starting after the match before: p is the
\* start of the first match at or after i (Len(s)+1 if none), e its end.
RECURSIVE DelimPass(_, _, _, _, _, _, _)
DelimPassMatch(s, p, delim, x, mark, skip, acc, e) ==
    DelimPass(s, e + 1, delim, x, mark, skip,
              DelimReplace(acc, SubSeq(s, p, e), delim, mark, skip))

DelimPassAt(s, i, delim, x, mark, skip, acc, p) ==
    IF p > Len(s) THEN WithText(acc, From(s, i))
    ELSE DelimPassMatch(s, p, delim, x, mark, skip, WithText(acc, SubSeq(s, i, p - 1)),
                        DelimMatchEnd(s, p, delim, x))

DelimPass(s, i, delim, x, mark, skip, acc) ==
    DelimPassAt(s, i, delim, x, mark, skip, acc,
                FirstWhere(i, Len(s), LAMBDA k : DelimMatchEnd(s, k, delim, x) # 0))

\* The link pass: processed.replace(/\[([^\]]+)\]\(([^)]+)\)/g, callback);
\* p is the start of the first match at or after i, m the match
RECURSIVE LinkPass(_, _, _)
LinkPassMatch(s, p, acc, m) ==
    LinkPass(s, m[2] + 1,
             WithPlaceholder(acc, [type |-> "link",
                                   text |-> SubSeq(s, p + 1, m[1] - 1),
                                   url  |-> SubSeq(s, m[1] + 2, m[2] - 1)]))

LinkPassAt(s, i, acc, p) ==
    IF p > Len(s) THEN WithText(acc, From(s, i))
    ELSE LinkPassMatch(s, p, WithText(acc, SubSeq(s, i, p - 1)), LinkMatch(s, p))

LinkPass(s, i, acc) ==
    LinkPassAt(s, i, acc, FirstWhere(i, Len(s), LAMBDA k : LinkMatch(s, k)[2] # 0))

\* a pass scans the text the pass before produced and adds to its placeholders
NextPass(a) == [out |-> "", ph |-> a.ph]

\* a variant of CodePass that extracts no code span
CodePassSkipped(text) == [out |-> text, ph |-> <<>>]

\* the passes in the order of the source: code, link, bold (** then __),
\* italic (* then _)
CodePass(text) == DelimPass(text, 1, BT, BT, "code", FALSE, [out |-> "", ph |-> <<>>])
LinkPassOf(a) == LinkPass(a.out, 1, NextPass(a))
BoldStarPass(a) == DelimPass(a.out, 1, "**", "*", "strong", TRUE, NextPass(a))
BoldUnderPass(a) == DelimPass(a.out, 1, "__", "_", "strong", TRUE, NextPass(a))
ItalicStarPass(a) == DelimPass(a.out, 1, "*", "*", "em", TRUE, NextPass(a))
ItalicUnderPass(a) == DelimPass(a.out, 1, "_", "_", "em", TRUE, NextPass(a))

Substitute(text) ==
    ItalicUnderPass(ItalicStarPass(BoldUnderPass(BoldStarPass(LinkPassOf(CodePass(text))))))

\* A match of  \u0001PLACEHOLDER\d+\u0001  at position i of s: the position of
\* its last character, 0 when there is no match at i. j is the position after
\* the digits.
TokenMatchEndAt(s, i, j) ==
    IF j > i + Len(PlaceholderPrefix) /\ Ch(s, j) = SOH THEN j ELSE 0

TokenMatchEnd(s, i) ==
    IF ~StartsWithAt(s, i, PlaceholderPrefix) THEN 0
    ELSE TokenMatchEndAt(s, i, FirstNotIn(s, i + Len(PlaceholderPrefix), Digit))

\* processed.split(/(\u0001PLACEHOLDER\d+\u0001)/g): the text between the
\* tokens and the tokens themselves, in order (p is the start of the first
\* token at or after i)
RECURSIVE SplitParts(_, _)
SplitPartsAt(s, i, p) ==
    IF p > Len(s) THEN <<From(s, i)>>
    ELSE <<SubSeq(s, i, p - 1), SubSeq(s, p, TokenMatchEnd(s, p))>>
         \o SplitParts(s, TokenMatchEnd(s, p) + 1)

SplitParts(s, i) ==
    SplitPartsAt(s, i, FirstWhere(i, Len(s), LAMBDA k : TokenMatchEnd(s, k) # 0))

\* placeholders.has(part) and placeholders.get(part): the indexes of the
\* entries whose token is part (at most one)
PlaceholderKeys(ph, part) == {n \in 1..Len(ph) : PlaceholderToken(n - 1) = part}

\* the node of a placeholder
PlaceholderNode(placeholder) ==
    IF placeholder.type = "link"
    THEN [type |-> "text", text |-> placeholder.text,
          marks |-> <<LinkMark(placeholder.url)>>]
    ELSE createTextNode(placeholder.text, <<createMark(placeholder.type)>>)

\* the nodes one part of the split becomes (none when the part is dropped);
\* keys are the indexes of the placeholders that part names
PartNodesOf(ph, part, keys) ==
    IF StartsWith(part, PlaceholderPrefix) /\ keys # {}
    THEN <<PlaceholderNode(ph[CHOOSE n \in keys : TRUE])>>
    ELSE IF ~StartsWith(part, PlaceholderPrefix)
    THEN <<createTextNode(part, <<>>)>>
    ELSE <<>>

PartNodes(ph, part) ==
    IF part = "" THEN <<>> ELSE PartNodesOf(ph, part, PlaceholderKeys(ph, part))

RECURSIVE BuildNodes(_, _)
BuildNodes(ph, parts) ==
    IF Len(parts) = 0 THEN <<>>
    ELSE PartNodes(ph, Head(parts)) \o BuildNodes(ph, Tail(parts))

\* nodes.length > 0 ? nodes : [createTextNode(text)]
NodesOrText(nodes, text) ==
    IF Len(nodes) > 0 THEN nodes ELSE <<createTextNode(text, <<>>)>>

NodesOf(a) == BuildNodes(a.ph, SplitParts(a.out, 1))

parseInlineFormatting(text) == NodesOrText(NodesOf(Substitute(text)), text)

(***************************************************************************)
(* The patterns convertMarkdownToAtlasDoc tests a line with.               *)
(***************************************************************************)
\* the line terminators: what "." does not match and where ^ and $ match
\* under the m flag
NL == {"\n", "\r"}

UpperCase == "ABCDEFGHIJKLMNOPQRSTUVWXYZ"
LowerCase == "abcdefghijklmnopqrstuvwxyz"
Letter == {Ch(UpperCase, k) : k \in 1..26} \cup {Ch(LowerCase, k) : k \in 1..26}

\* String.prototype.toLowerCase (what the i flag compares)
RECURSIVE Lower(_)
Lower(s) ==
    IF s = "" THEN ""
    ELSE LET c == Ch(s, 1)
             k == FirstIn(UpperCase, 1, {c})
         IN  (IF k <= 26 THEN Ch(LowerCase, k) ELSE c) \o Lower(From(s, 2))

\* lit (in lower case) at position i of s, compared as the i flag compares
StartsWithAtCI(s, i, lit) ==
    /\ i >= 1
    /\ i + Len(lit) - 1 <= Len(s)
    /\ Lower(SubSeq(s, i, i + Len(lit) - 1)) = lit

\*  \s+(.+)$  at position a of a line: the text (.+) captures, "" when there
\* is no match. \s+ is greedy: it takes all the whitespace and gives one
\* character back only when nothing else is left for (.+).
WsThenText(s, a) ==
    IF Ch(s, a) \notin WS THEN ""
    ELSE LET p == FirstNotIn(s, a, WS)
         IN  IF p <= Len(s) THEN From(s, p)
             ELSE IF Len(s) > a /\ Ch(s, Len(s)) \notin NL THEN Ch(s, Len(s))
             ELSE ""

\* line.match(/^(\s*)([-*+]|\d+\.)\s+(.+)$/): [ok, indent, marker, content]
ListMatch(line) ==
    LET m  == FirstNotIn(line, 1, WS)
        c  == Ch(line, m)
        d  == FirstNotIn(line, m, Digit)
        me == IF c \in {"-", "*", "+"} THEN m
              ELSE IF c \in Digit /\ Ch(line, d) = "." THEN d
              ELSE 0
        content == IF me = 0 THEN "" ELSE WsThenText(line, me + 1)
    IN  IF content = ""
        THEN [ok |-> FALSE, indent |-> 0, marker |-> "", content |-> ""]
        ELSE [ok |-> TRUE, indent |-> m - 1, marker |-> SubSeq(line, m, me),
              content |-> content]

\* /^\d+\.$/.test(marker)
IsOrderedMarker(marker) ==
    /\ Len(marker) >= 2
    /\ Ch(marker, Len(marker)) = "."
    /\ AllIn(SubSeq(marker, 1, Len(marker) - 1), Digit)

\* line.match(/^(#{1,6})\s+(.+)$/): [ok, level, text]
HeadingMatch(line) ==
    LET h    == FirstNotIn(line, 1, {"#"}) - 1
        text == IF h >= 1 /\ h <= 6 THEN WsThenText(line, h + 1) ELSE ""
    IN  IF text = "" THEN [ok |-> FALSE, level |-> 0, text |-> ""]
        ELSE [ok |-> TRUE, level |-> h, text |-> text]

\* line.match(/^\|?[\s\-:|]+\|?$/): the class holds the pipe, so the line
\* matches when it is not empty and made of the class alone
IsSeparatorRow(line) ==
    /\ Len(line) >= 1
    /\ AllIn(line, WS \cup {"-", ":", "|"})

\* line.trim().match(/^[-*_]{3,}$/)
IsRuleText(t) == Len(t) >= 3 /\ AllIn(t, {"-", "*", "_"})

IsRule(line) == IsRuleText(Trim(line))

DirectiveNames == {"github_only", "ppt_only", "confluence_only"}

\* One of the names at position i of s (i flag): the position after it, 0 if none
DirectiveNameEnd(s, i, names) ==
    LET hit == {n \in names : StartsWithAtCI(s, i, n)}
    IN  IF hit = {} THEN 0 ELSE i + Len(CHOOSE n \in hit : TRUE)

\*  <!--\s*NAME\s*-->  (closing = FALSE) or  <!--\s*\/\s*NAME\s*-->  (closing
\* = TRUE) at position i of s, NAME one of names: the position of the last
\* character of the match, 0 when there is no match at i
\* a is the position after "<!--" and the whitespace, b the position the
\* name starts at, e the position after the name, c the position after the
\* whitespace that follows the name (each 0 when the match failed before)
DirectiveTagClose(s, c) == IF c # 0 /\ StartsWithAt(s, c, "-->") THEN c + 2 ELSE 0

DirectiveTagAfterName(s, e) ==
    DirectiveTagClose(s, IF e = 0 THEN 0 ELSE FirstNotIn(s, e, WS))

DirectiveTagName(s, b, names) ==
    DirectiveTagAfterName(s, IF b = 0 THEN 0 ELSE DirectiveNameEnd(s, b, names))

DirectiveTagSlash(s, a, names, closing) ==
    DirectiveTagName(s, IF closing
                        THEN (IF Ch(s, a) = "/" THEN FirstNotIn(s, a + 1, WS) ELSE 0)
                        ELSE a,
                     names)

DirectiveTagEnd(s, i, names, closing) ==
    IF ~StartsWithAt(s, i, "<!--") THEN 0
    ELSE DirectiveTagSlash(s, FirstNotIn(s, i + 4, WS), names, closing)

\* line.trim().match(/^<!--\s*(GITHUB_ONLY|PPT_ONLY|CONFLUENCE_ONLY|
\*                      \/\s*(GITHUB_ONLY|PPT_ONLY|CONFLUENCE_ONLY))\s*-->$/i)
IsDirective(t) ==
    /\ Len(t) > 0
    /\ \/ DirectiveTagEnd(t, 1, DirectiveNames, FALSE) = Len(t)
       \/ DirectiveTagEnd(t, 1, DirectiveNames, TRUE) = Len(t)

IsDirectiveLine(line) == IsDirective(Trim(line))

\* line.match(/^!\[([^\]]*)\]\(([^)]+)\)$/): [ok, alt, url]
ImageMatch(line) ==
    LET j == FirstIn(line, 3, {"]"})
        k == FirstIn(line, j + 2, {")"})
    IN  IF /\ StartsWith(line, "![")
           /\ j <= Len(line)
           /\ Ch(line, j + 1) = "("
           /\ k > j + 2
           /\ k = Len(line)
        THEN [ok |-> TRUE, alt |-> SubSeq(line, 3, j - 1),
              url |-> SubSeq(line, j + 2, k - 1)]
        ELSE [ok |-> FALSE, alt |-> "", url |-> ""]

ViewIdOpen == "<ac:image-placeholder-viewid="

\* /<ac:image-placeholder-viewid="([^"]+)"\s*\/?>/ at position i of line:
\* [end, viewId], end = 0 when there is no match at i
ViewIdMatch(line, i) ==
    LET b == i + Len(ViewIdOpen) + 1
        q == FirstIn(line, b, {"\""})
        w == FirstNotIn(line, q + 1, WS)
        g == IF Ch(line, w) = "/" THEN w + 1 ELSE w
    IN  IF /\ StartsWithAt(line, i, ViewIdOpen \o "\"")
           /\ q > b
           /\ q <= Len(line)
           /\ Ch(line, g) = ">"
        THEN [end |-> g, viewId |-> SubSeq(line, b, q - 1)]
        ELSE [end |-> 0, viewId |-> ""]

(***************************************************************************)
(* The directive stripping convertMarkdownToAtlasDoc starts with.          *)
(***************************************************************************)
\* ^ under the m flag
AtLineStart(s, i) == i = 1 \/ Ch(s, i - 1) \in NL

\* $ under the m flag, after the character at position i - 1
AtLineEnd(s, i) == i > Len(s) \/ Ch(s, i) \in NL

\* the first position >= i at which the closing tag of names matches,
\* Len(s)+1 if none; with oneLine the text before it holds no line terminator
\* (".*?" instead of "[\s\S]*?")
ClosingTagAt(s, i, oneLine, c) ==
    IF oneLine /\ FirstIn(s, i, NL) < c THEN Len(s) + 1 ELSE c

ClosingTagFrom(s, i, names, oneLine) ==
    ClosingTagAt(s, i, oneLine,
                 FirstWhere(i, Len(s), LAMBDA k : DirectiveTagEnd(s, k, names, TRUE) # 0))

\*  <!--\s*NAME\s*-->[\s\S]*?<!--\s*\/\s*NAME\s*-->  at position i of s (with
\* oneLine: .*? between the tags): the position of the last character of the
\* match, 0 when there is no match at i. e is the end of the opening tag at
\* i, c the position of the closing tag.
BlockMatchClose(s, names, c) ==
    IF c > Len(s) THEN 0 ELSE DirectiveTagEnd(s, c, names, TRUE)

BlockMatchOpen(s, names, oneLine, e) ==
    IF e = 0 THEN 0
    ELSE BlockMatchClose(s, names, ClosingTagFrom(s, e + 1, names, oneLine))

BlockMatchEnd(s, i, names, oneLine) ==
    BlockMatchOpen(s, names, oneLine, DirectiveTagEnd(s, i, names, FALSE))

\* markdown.replace(/<!--\s*NAME\s*-->[\s\S]*?<!--\s*\/\s*NAME\s*-->/gi, '')
\* and, with oneLine, the same with .*? between the tags; p is the start of
\* the first match at or after i
RECURSIVE RemoveBlocks(_, _, _, _)
RemoveBlocksAt(s, i, names, oneLine, p) ==
    IF p > Len(s) THEN From(s, i)
    ELSE SubSeq(s, i, p - 1)
         \o RemoveBlocks(s, BlockMatchEnd(s, p, names, oneLine) + 1, names, oneLine)

RemoveBlocks(s, i, names, oneLine) ==
    RemoveBlocksAt(s, i, names, oneLine,
                   FirstWhere(i, Len(s),
                              LAMBDA k : BlockMatchEnd(s, k, names, oneLine) # 0))

\* markdown.replace(/<!--\s*NAME\s*-->/gi, '') and the same for the closing tag
RECURSIVE RemoveTags(_, _, _, _)
RemoveTagsAt(s, i, names, closing, p) ==
    IF p > Len(s) THEN From(s, i)
    ELSE SubSeq(s, i, p - 1)
         \o RemoveTags(s, DirectiveTagEnd(s, p, names, closing) + 1, names, closing)

RemoveTags(s, i, names, closing) ==
    RemoveTagsAt(s, i, names, closing,
                 FirstWhere(i, Len(s),
                            LAMBDA k : DirectiveTagEnd(s, k, names, closing) # 0))

\* a line that is exactly ":::" starts at position i of s
AstroCloseAt(s, i) ==
    AtLineStart(s, i) /\ StartsWithAt(s, i, ":::") /\ AtLineEnd(s, i + 3)

\*  ^:::[a-zA-Z]+(\[[^\]]*\])?[\s\S]*?^:::$  (m flag) at position i of s: the
\* position of the last character of the match, 0 when there is no match at
\* i. After ":::" and one letter the lazy [\s\S]*? takes whatever precedes
\* the first line that is exactly ":::".
AstroMatchClose(s, c) == IF c > Len(s) THEN 0 ELSE c + 2

AstroMatchEnd(s, i) ==
    IF AtLineStart(s, i) /\ StartsWithAt(s, i, ":::") /\ Ch(s, i + 3) \in Letter
    THEN AstroMatchClose(s, FirstWhere(i + 4, Len(s), LAMBDA k : AstroCloseAt(s, k)))
    ELSE 0

\* markdown.replace(/^:::[a-zA-Z]+(\[[^\]]*\])?[\s\S]*?^:::$/gm, '')
RECURSIVE RemoveAstroBlocks(_, _)
RemoveAstroBlocksAt(s, i, p) ==
    IF p > Len(s) THEN From(s, i)
    ELSE SubSeq(s, i, p - 1) \o RemoveAstroBlocks(s, AstroMatchEnd(s, p) + 1)

RemoveAstroBlocks(s, i) ==
    RemoveAstroBlocksAt(s, i, FirstWhere(i, Len(s), LAMBDA k : AstroMatchEnd(s, k) # 0))

\* the seven replacements, in the order of the source
StripGithubOnly(m) == RemoveBlocks(m, 1, {"github_only"}, FALSE)
StripPptOnly(m) == RemoveBlocks(m, 1, {"ppt_only"}, FALSE)
StripGithubOnlyInline(m) == RemoveBlocks(m, 1, {"github_only"}, TRUE)
StripPptOnlyInline(m) == RemoveBlocks(m, 1, {"ppt_only"}, TRUE)
StripConfluenceOnlyOpen(m) == RemoveTags(m, 1, {"confluence_only"}, FALSE)
StripConfluenceOnlyClose(m) == RemoveTags(m, 1, {"confluence_only"}, TRUE)
StripAstro(m) == RemoveAstroBlocks(m, 1)

StripDirectives(markdown) ==
    StripAstro(StripConfluenceOnlyClose(StripConfluenceOnlyOpen(
        StripPptOnlyInline(StripGithubOnlyInline(StripPptOnly(StripGithubOnly(markdown)))))))

(***************************************************************************)
(* countHeadings.                                                          *)
(***************************************************************************)
\* A match of /^#{1,6}\s+.+$/m that starts at position i of the markdown: the
\* position of its last character, 0 when there is no match at i. \s+ also
\* matches line terminators, so the whitespace after the hashes may run over
\* the end of the line; .+ then starts at the last character \s+ can leave
\* to it.
HeadingCountMatchEnd(s, i) ==
    LET h == FirstNotIn(s, i, {"#"}) - i
        a == i + h
        p == FirstNotIn(s, a, WS)
        q == IF p <= Len(s) THEN p ELSE LastNotIn(s, Len(s), NL)
    IN  IF /\ AtLineStart(s, i)
           /\ h >= 1
           /\ h <= 6
           /\ Ch(s, a) \in WS
           /\ q > a
        THEN FirstIn(s, q, NL) - 1
        ELSE 0

\* markdown.match(headingRegex).length: the matches, found left to right,
\* each search starting after the match before (p is the start of the first
\* match at or after i)
RECURSIVE CountHeadingsFrom(_, _)
CountHeadingsAt(s, p) ==
    IF p > Len(s) THEN 0 ELSE 1 + CountHeadingsFrom(s, HeadingCountMatchEnd(s, p) + 1)

CountHeadingsFrom(s, i) ==
    CountHeadingsAt(s, FirstWhere(i, Len(s), LAMBDA k : HeadingCountMatchEnd(s, k) # 0))

countHeadings(markdown) == CountHeadingsFrom(markdown, 1)

createTableOfContents ==
    [type |-> "extension",
     attrs |-> [extensionType |-> "com.atlassian.confluence.macro.core",
                extensionKey |-> "toc",
                parameters |-> [macroParams |-> [minLevel |-> [value |-> "1"],
                                                 maxLevel |-> [value |-> "3"],
                                                 style |-> [value |-> "default"]]]]]

(***************************************************************************)
(* parseTable.  Lines are indexed from 1 in the model.                     *)
(***************************************************************************)
\* cell => cell.trim() over line.split('|')
RECURSIVE TrimAll(_)
TrimAll(seq) ==
    IF Len(seq) = 0 THEN <<>> ELSE <<Trim(Head(seq))>> \o TrimAll(Tail(seq))

\* the cells of one row: the empty first and last cells (from the leading and
\* trailing pipes) are removed
WithoutEmptyEnds(arr) ==
    SubSeq(arr, IF arr[1] = "" THEN 2 ELSE 1,
                IF arr[Len(arr)] = "" THEN Len(arr) - 1 ELSE Len(arr))

RowCells(line) == WithoutEmptyEnds(TrimAll(Split(line, "|")))

\* a variant of CellNodes that makes a tableCell of every cell
CellNodesPlain(cells, isHeader) ==
    [k \in 1..Len(cells) |->
        [type |-> "tableCell",
         content |-> <<[type |-> "paragraph",
                        content |-> parseInlineFormatting(cells[k])]>>]]

RECURSIVE CellNodes(_, _)
CellNodes(cells, isHeader) ==
    IF Len(cells) = 0 THEN <<>>
    ELSE <<[type |-> IF isHeader THEN "tableHeader" ELSE "tableCell",
            content |-> <<[type |-> "paragraph",
                           content |-> parseInlineFormatting(Head(cells))]>>]>>
         \o CellNodes(Tail(cells), isHeader)

\* the while loop of parseTable from line k on: [rows, k], k the first line
\* the loop did not consume
RECURSIVE TableRows(_, _, _)
TableRowsWith(lines, k, rows, cells) ==
    IF Len(cells) > 0
    THEN TableRows(lines, k + 1,
                   Append(rows, [type |-> "tableRow",
                                 content |-> CellNodes(cells, Len(rows) = 0)]))
    ELSE TableRows(lines, k + 1, rows)

TableRows(lines, k, rows) ==
    IF k > Len(lines) THEN [rows |-> rows, k |-> k]
    ELSE IF ~Includes(lines[k], "|") THEN [rows |-> rows, k |-> k]
    ELSE IF IsSeparatorRow(lines[k]) THEN TableRows(lines, k + 1, rows)
    ELSE TableRowsWith(lines, k, rows, RowCells(lines[k]))

\* the fewest rows a table has
MinTableRows == 2

\* parseTable(lines, startIndex): [ok, table, endIndex]; ok = FALSE stands for
\* table: null
NoTable(startIndex) ==
    [ok |-> FALSE, table |-> [type |-> "none"], endIndex |-> startIndex]

\* a variant of TableResult that accepts a table of one row
TableResultAnyRows(r, startIndex) ==
    IF Len(r.rows) < 1 THEN NoTable(startIndex)
    ELSE [ok |-> TRUE,
          table |-> [type |-> "table",
                     attrs |-> [isNumberColumnEnabled |-> FALSE, layout |-> "default"],
                     content |-> r.rows],
          endIndex |-> r.k - 1]

\* a variant of TableResult whose endIndex is the line after the last row
TableResultPastEnd(r, startIndex) ==
    IF Len(r.rows) < MinTableRows THEN NoTable(startIndex)
    ELSE [ok |-> TRUE,
          table |-> [type |-> "table",
                     attrs |-> [isNumberColumnEnabled |-> FALSE, layout |-> "default"],
                     content |-> r.rows],
          endIndex |-> r.k]

TableResult(r, startIndex) ==
    IF Len(r.rows) < MinTableRows THEN NoTable(startIndex)
    ELSE [ok |-> TRUE,
          table |-> [type |-> "table",
                     attrs |-> [isNumberColumnEnabled |-> FALSE, layout |-> "default"],
                     content |-> r.rows],
          endIndex |-> r.k - 1]

parseTable(lines, startIndex) ==
    IF startIndex + 1 > Len(lines) \/ ~IsSeparatorRow(lines[startIndex + 1])
    THEN NoTable(startIndex)
    ELSE TableResult(TableRows(lines, startIndex, <<>>), startIndex)

(***************************************************************************)
(* The list stack.  A frame is [type, items, indent, nestedListNode]:       *)
(* nestedListNode is the reference to the list node created inside the     *)
(* last item of the frame below, modelled by the position of that node in  *)
(* the item's content, and 0 when the frame has no nestedListNode.         *)
(***************************************************************************)
ListTypes == {"bulletList", "orderedList"}

Top(stack) == stack[Len(stack)]

Pop(stack) == SubSeq(stack, 1, Len(stack) - 1)

\* parentList.items[parentList.items.length - 1].content of the top frame
LastItemContent(stack) == Top(stack).items[Len(Top(stack).items)].content

\* the stack with the content of the top frame's last item replaced
WithLastItemContent(stack, c) ==
    [stack EXCEPT ![Len(stack)].items[Len(Top(stack).items)].content = c]

\* lastItem.content.find(c => c.type === 'bulletList' || c.type === 'orderedList'):
\* the position of the first list node, 0 if there is none
FindList(content) ==
    LET hit == {k \in 1..Len(content) : content[k].type \in ListTypes}
    IN  IF hit = {} THEN 0 ELSE CHOOSE k \in hit : \A m \in hit : k <= m

\* finishedList.nestedListNode.content = finishedList.items, the node being
\* the one in the last item of the frame now on top
SetNestedContent(rest, finished) ==
    WithLastItemContent(rest,
        [LastItemContent(rest) EXCEPT ![finished.nestedListNode].content = finished.items])

ListNode(finished) == [type |-> finished.type, content |-> finished.items]

\* One frame popped because a list item is shallower, or of the other kind
\* at the same indent: [stack, doc]
\* (finished is the popped frame, rest the stack without it, c the content
\* of the last item of the frame then on top, e the existingList in it)
PushOrMerge(rest, finished, c, e) ==
    IF e = 0
    THEN WithLastItemContent(rest, Append(c, ListNode(finished)))
    ELSE WithLastItemContent(rest, [c EXCEPT ![e].content = @ \o finished.items])

AddToParent(rest, finished, c) == PushOrMerge(rest, finished, c, FindList(c))

ClosePopped(finished, rest, doc) ==
    IF finished.nestedListNode # 0
    THEN [stack |-> SetNestedContent(rest, finished), doc |-> doc]
    ELSE IF Len(rest) > 0
    THEN [stack |-> AddToParent(rest, finished, LastItemContent(rest)), doc |-> doc]
    ELSE [stack |-> rest, doc |-> Append(doc, ListNode(finished))]

CloseFrame(stack, doc) == ClosePopped(Top(stack), Pop(stack), doc)

\* a variant of CloseDeeper that closes no frame
CloseDeeperNever(r, indent) == r

\* while (listStack.length > 0 && top.indent > indent) close the top frame
RECURSIVE CloseDeeper(_, _)
CloseDeeper(r, indent) ==
    IF Len(r.stack) > 0 /\ Top(r.stack).indent > indent
    THEN CloseDeeper(CloseFrame(r.stack, r.doc), indent)
    ELSE r

\* One frame popped because a line is not a list item: [stack, doc]
\* (the nestedListNode of the popped frame is not looked at)
PushUnlessListed(rest, finished, c) ==
    IF FindList(c) = 0
    THEN WithLastItemContent(rest, Append(c, ListNode(finished)))
    ELSE rest

ClosePoppedAtNonListLine(finished, rest, doc) ==
    IF Len(rest) > 0
    THEN [stack |-> PushUnlessListed(rest, finished, LastItemContent(rest)), doc |-> doc]
    ELSE [stack |-> rest, doc |-> Append(doc, ListNode(finished))]

CloseFrameAtNonListLine(stack, doc) ==
    ClosePoppedAtNonListLine(Top(stack), Pop(stack), doc)

\* "Close all lists if we hit a non-list line": doc.content afterwards
RECURSIVE CloseAllAtNonListLine(_)
CloseAllAtNonListLine(r) ==
    IF Len(r.stack) = 0 THEN r.doc
    ELSE CloseAllAtNonListLine(CloseFrameAtNonListLine(r.stack, r.doc))

\* One frame popped at the end of the input: [stack, doc]
ClosePoppedAtEnd(finished, rest, doc) ==
    IF finished.nestedListNode # 0
    THEN [stack |-> SetNestedContent(rest, finished), doc |-> doc]
    ELSE IF Len(rest) > 0
    THEN [stack |-> PushUnlessListed(rest, finished, LastItemContent(rest)), doc |-> doc]
    ELSE [stack |-> rest, doc |-> Append(doc, ListNode(finished))]

CloseFrameAtEnd(stack, doc) == ClosePoppedAtEnd(Top(stack), Pop(stack), doc)

\* "Close any open lists" after the loop: doc.content afterwards
RECURSIVE CloseAllAtEnd(_)
CloseAllAtEnd(r) ==
    IF Len(r.stack) = 0 THEN r.doc
    ELSE CloseAllAtEnd(CloseFrameAtEnd(r.stack, r.doc))

\* the list item of a line: one paragraph with the tokenized content
\* paragraphContent.length > 0 ? paragraphContent : [createTextNode('')]
ContentOrEmptyText(paragraphContent) ==
    IF Len(paragraphContent) > 0 THEN paragraphContent ELSE <<createTextNode("", <<>>)>>

ListItemNode(content) ==
    [type |-> "listItem",
     content |-> <<[type |-> "paragraph",
                    content |-> ContentOrEmptyText(parseInlineFormatting(content))]>>]

\* A frame pushed for a list item; above another frame it is a nested list:
\* an empty list node is added to the last item of that frame and the new
\* frame keeps the reference to it
NewFrame(listType, indent, nestedListNode) ==
    [type |-> listType, items |-> <<>>, indent |-> indent,
     nestedListNode |-> nestedListNode]

NestIn(stack, listType, indent, c) ==
    Append(WithLastItemContent(stack, Append(c, [type |-> listType, content |-> <<>>])),
           NewFrame(listType, indent, Len(c) + 1))

OpenFrame(stack, listType, indent) ==
    IF Len(stack) = 0 THEN <<NewFrame(listType, indent, 0)>>
    ELSE NestIn(stack, listType, indent, LastItemContent(stack))

OpenIn(r, listType, indent) ==
    [stack |-> OpenFrame(r.stack, listType, indent), doc |-> r.doc]

\* isOrdered ? 'orderedList' : 'bulletList'
ListTypeOf(marker) == IF IsOrderedMarker(marker) THEN "orderedList" ELSE "bulletList"

\* The frame the item goes to, r = [stack, doc] being the state after the
\* deeper frames were closed: the top frame when it has the indent and the
\* kind of the item; a new frame otherwise, pushed after the top frame was
\* closed when that has the indent but not the kind
CurrentList(r, listType, indent) ==
    IF Len(r.stack) > 0 /\ Top(r.stack).indent = indent
    THEN IF Top(r.stack).type = listType THEN r
         ELSE OpenIn(CloseFrame(r.stack, r.doc), listType, indent)
    ELSE OpenIn(r, listType, indent)

\* a variant of PushItem that pushes no item
PushItemNowhere(r, listItem) == r

\* currentList.items.push(listItem)
PushItem(r, listItem) == [r EXCEPT !.stack[Len(r.stack)].items = Append(@, listItem)]

\* The list handling of one list-item line: [stack, doc]
HandleListItem(stack, doc, m) ==
    PushItem(CurrentList(CloseDeeper([stack |-> stack, doc |-> doc], m.indent),
                         ListTypeOf(m.marker), m.indent),
             ListItemNode(m.content))

(***************************************************************************)
(* The other blocks of convertMarkdownToAtlasDoc.                          *)
(***************************************************************************)
\* the language a closed fence is emitted with
DefaultLanguage == "plain"

Fence == BT \o BT \o BT

\* line.trim().startsWith('```')
IsFenceLine(line) == StartsWith(Trim(line), Fence)

\* line.trim().substring(3).trim() || null; null is modelled by ""
FenceLanguage(line) == Trim(From(Trim(line), 4))

\* the node a closing fence pushes
\* codeText ? [createTextNode(codeText)] : []
CodeBlockText(codeText) ==
    IF codeText # "" THEN <<createTextNode(codeText, <<>>)>> ELSE <<>>

CodeBlockNode(language, content) ==
    [type |-> "codeBlock",
     attrs |-> [language |-> IF language # "" THEN language ELSE DefaultLanguage],
     content |-> CodeBlockText(Join(content, "\n"))]

\* the table test of the loop: a pipe in the line and a separator row below
IsTableCandidate(lines, i) ==
    /\ Includes(lines[i], "|")
    /\ i + 1 <= Len(lines)
    /\ IsSeparatorRow(lines[i + 1])

HeadingNode(m) ==
    [type |-> "heading", attrs |-> [level |-> m.level],
     content |-> parseInlineFormatting(m.text)]

RuleNode == [type |-> "rule"]

ImageParagraph(m) ==
    [type |-> "paragraph",
     content |-> <<[type |-> "media",
                    attrs |-> [type |-> "file", url |-> m.url, alt |-> m.alt]]>>]

\* text before or after a placeholder: tokenized unless it is blank
TextRuns(text) == IF Len(Trim(text)) > 0 THEN parseInlineFormatting(text) ELSE <<>>

\* the while loop over placeholderRegex.exec(line) and the text after the last
\* match; lastIndex is the position after the last match (from 1), p the
\* start of the next match, m the match
RECURSIVE PlaceholderContent(_, _)
PlaceholderContentMatch(line, lastIndex, p, m) ==
    TextRuns(SubSeq(line, lastIndex, p - 1))
    \o <<[type |-> "media", attrs |-> [type |-> "file", placeholderViewId |-> m.viewId]]>>
    \o PlaceholderContent(line, m.end + 1)

PlaceholderContentAt(line, lastIndex, p) ==
    IF p > Len(line) THEN TextRuns(From(line, lastIndex))
    ELSE PlaceholderContentMatch(line, lastIndex, p, ViewIdMatch(line, p))

PlaceholderContent(line, lastIndex) ==
    PlaceholderContentAt(line, lastIndex,
                         FirstWhere(lastIndex, Len(line),
                                    LAMBDA k : ViewIdMatch(line, k).end # 0))

\* what a line with placeholders pushes: nothing when it has no content
PlaceholderBlocks(paragraphContent) ==
    IF Len(paragraphContent) > 0
    THEN <<[type |-> "paragraph", content |-> paragraphContent]>>
    ELSE <<>>

ParagraphNode(line) ==
    [type |-> "paragraph",
     content |-> ContentOrEmptyText(parseInlineFormatting(line))]

\* a variant of IsEmptyParagraph that takes every node for an empty paragraph
IsEmptyParagraphAlways(node) == TRUE

\* the test of "Remove trailing empty paragraphs"
IsEmptyParagraph(node) ==
    /\ node.type = "paragraph"
    /\ \/ Len(node.content) = 0
       \/ /\ Len(node.content) = 1
          /\ node.content[1].type = "text"
          /\ Trim(node.content[1].text) = ""

RECURSIVE StripTrailingEmpty(_)
StripTrailingEmpty(doc) ==
    IF Len(doc) > 0 /\ IsEmptyParagraph(doc[Len(doc)])
    THEN StripTrailingEmpty(SubSeq(doc, 1, Len(doc) - 1))
    ELSE doc

\* Which branch of the loop body takes a line: the tests in the order of the
\* source, each one reached only when those before it failed.
LineKind(lines, i, inCode) ==
    IF IsDirectiveLine(lines[i]) THEN "directive"
    ELSE IF IsFenceLine(lines[i]) THEN "fence"
    ELSE IF inCode THEN "code"
    ELSE IF IsTableCandidate(lines, i) /\ parseTable(lines, i).ok THEN "table"
    ELSE IF ListMatch(lines[i]).ok THEN "list"
    ELSE IF HeadingMatch(lines[i]).ok THEN "heading"
    ELSE IF IsRule(lines[i]) THEN "rule"
    ELSE IF Len(Trim(lines[i])) = 0 THEN "blank"
    ELSE IF ImageMatch(lines[i]).ok THEN "image"
    ELSE IF Includes(lines[i], ViewIdOpen) THEN "placeholder"
    ELSE "paragraph"

(***************************************************************************)
(* addWarningPanelToAtlas (content-processor.js).                          *)
(***************************************************************************)
warningPanel(githubUrl) ==
    [type |-> "panel",
     attrs |-> [panelType |-> "warning"],
     content |-> <<[type |-> "paragraph",
                    content |-> <<[type |-> "text",
                                   text |-> "This page was automatically generated from "],
                                  [type |-> "text",
                                   marks |-> <<LinkMark(githubUrl)>>,
                                   text |-> "source on GitHub"],
                                  [type |-> "text",
                                   text |-> ". Do not edit directly as your edits may be overwritten."]>>]>>]

\* a variant of addWarningPanelToAtlas that puts the panel last
addWarningPanelAtEnd(content, githubUrl) ==
    IF githubUrl = "" THEN content ELSE Append(content, warningPanel(githubUrl))

\* the content of the document returned for a document with this content;
\* no URL (null) is modelled by ""
addWarningPanelToAtlas(content, githubUrl) ==
    IF githubUrl = "" THEN content ELSE <<warningPanel(githubUrl)>> \o content

(***************************************************************************)
(* The state.                                                              *)
(***************************************************************************)
VARIABLES
    pc,                \* idle | loop | done | panel: where the conversion is
    markdown,          \* the argument of convertMarkdownToAtlasDoc
    options,           \* [addTableOfContents, tocThreshold]
    lines,             \* markdown.split('\n') after the directive stripping
    i,                 \* the loop index (from 1)
    doc,               \* doc.content
    headingCount,      \* countHeadings(markdown)
    inCodeBlock,
    codeBlockContent,
    codeBlockLanguage,
    listStack,
    calls,             \* the number of calls of convertMarkdownToAtlasDoc so far
    results,           \* what the calls returned: [markdown, options, content]
    githubUrl,         \* the URL addWarningPanelToAtlas was called with
    atlas,             \* the content addWarningPanelToAtlas returned
    inlineText,        \* the argument of the last call of parseInlineFormatting
    inlineRuns         \* what that call returned

convVars == <<pc, markdown, options, lines, i, doc, headingCount, inCodeBlock,
              codeBlockContent, codeBlockLanguage, listStack, calls, results,
              githubUrl, atlas>>

inlineVars == <<inlineText, inlineRuns>>

\* publishMarkdownFile (index.js) and the Confluence pages it meets
VARIABLES
    pubPc,             \* idle | parent | find | safe | status | update | create |
                       \* label | followup | returned | thrown | counted
    file,              \* the file: [inSpace, inFolder, githubUrl, images]
    folderPage,        \* the page of the file's directory in Confluence
    targetPage,        \* the page with the file's title in Confluence
    existingPageId,    \* TRUE when existingPageId is not null
    existingVersion,   \* 0 when existingVersion is null
    canUpdate,
    publishedPageId,   \* none | existing | new
    requests,          \* the writing requests sent so far, in order
    stats              \* the statistics of publish: [success, failed, skipped]

pubVars == <<pubPc, file, folderPage, targetPage, existingPageId, existingVersion,
             canUpdate, publishedPageId, requests, stats>>

\* findPageByTitle and searchPagesByTitle (api-client.js)
VARIABLES
    findPc,            \* idle | direct | cql | cqlAll | list | validate | done | thrown
    caller,            \* find | search: the function that was called
    existingPage,      \* existingPage of findPageByTitle
    resultCount,
    start,             \* the offset of the next page listing
    tried,             \* the requests sent so far: [strategy, response]
    findResult         \* what the call returned

clientVars == <<findPc, caller, existingPage, resultCount, start, tried, findResult>>

\* isPageSafeToUpdate (page-manager.js) and the labels of the page it looks at
VARIABLES
    safePc,            \* idle | done: where the call of isPageSafeToUpdate is
    pageLabels,        \* the names of the labels of the page
    lookups,           \* the calls of hasLabel, in order: [label, status]
    safeResult         \* what isPageSafeToUpdate returned

labelVars == <<safePc, pageLabels, lookups, safeResult>>

vars == <<convVars, inlineVars, pubVars, clientVars, labelVars>>

\* the defaults of the options
DefaultTocThreshold == 4

DefaultOptions == [addTableOfContents |-> TRUE, tocThreshold |-> DefaultTocThreshold]

shouldAddToc == options.addTableOfContents /\ headingCount >= options.tocThreshold

InLoop == pc = "loop" /\ i <= Len(lines)

\* if (shouldAddToc && doc.content.length > 0) doc.content.unshift(toc)
WithToc(content, addToc) ==
    IF addToc /\ Len(content) > 0 THEN <<createTableOfContents>> \o content ELSE content

Kind == LineKind(lines, i, inCodeBlock)

Init ==
    /\ pc = "idle"
    /\ markdown = ""
    /\ options = DefaultOptions
    /\ lines = <<>>
    /\ i = 1
    /\ doc = <<>>
    /\ headingCount = 0
    /\ inCodeBlock = FALSE
    /\ codeBlockContent = <<>>
    /\ codeBlockLanguage = ""
    /\ listStack = <<>>
    /\ calls = 0
    /\ results = <<>>
    /\ githubUrl = ""
    /\ atlas = <<>>
    /\ inlineText = ""
    /\ inlineRuns = <<>>
    /\ pubPc = "idle"
    /\ file = [inSpace |-> TRUE, inFolder |-> FALSE, githubUrl |-> FALSE, images |-> FALSE]
    /\ folderPage = [exists |-> FALSE, generated |-> FALSE, panel |-> FALSE,
                     version |-> 0, fresh |-> FALSE]
    /\ targetPage = [exists |-> FALSE, generated |-> FALSE, status |-> "current",
                     version |-> 0, fresh |-> FALSE]
    /\ existingPageId = FALSE
    /\ existingVersion = 0
    /\ canUpdate = FALSE
    /\ publishedPageId = "none"
    /\ requests = <<>>
    /\ stats = [success |-> 0, failed |-> 0, skipped |-> 0]
    /\ findPc = "idle"
    /\ caller = "find"
    /\ existingPage = [kind |-> "null"]
    /\ resultCount = 0
    /\ start = 0
    /\ tried = <<>>
    /\ findResult = [kind |-> "null"]
    /\ safePc = "idle"
    /\ pageLabels = {}
    /\ lookups = <<>>
    /\ safeResult = FALSE

(***************************************************************************)
(* convertMarkdownToAtlasDoc: the call, one action per branch of the loop  *)
(* body, and the code after the loop.                                      *)
(***************************************************************************)
\* a variant of inCodeBlockAtCall: the flag of the call before is kept
inCodeBlockKept == inCodeBlock

\* the locals a call declares before the loop
inCodeBlockAtCall == FALSE

listStackAtCall == <<>>

\* the call, up to the loop: every local variable is created anew
Convert(md, opts) ==
    /\ pc # "loop"
    /\ \E stripped \in {StripDirectives(md)} :
           /\ lines' = Split(stripped, "\n")
           /\ headingCount' = countHeadings(stripped)
    /\ markdown' = md
    /\ options' = opts
    /\ doc' = <<>>
    /\ i' = 1
    /\ inCodeBlock' = inCodeBlockAtCall
    /\ codeBlockContent' = <<>>
    /\ codeBlockLanguage' = ""
    /\ listStack' = listStackAtCall
    /\ calls' = calls + 1
    /\ githubUrl' = ""
    /\ atlas' = <<>>
    /\ pc' = "loop"
    /\ UNCHANGED <<results, inlineVars, pubVars, clientVars, labelVars>>

\* a line that is only a directive tag is skipped
SkipDirectiveLine ==
    /\ InLoop /\ Kind = "directive"
    /\ i' = i + 1
    /\ UNCHANGED <<pc, markdown, options, lines, doc, headingCount, inCodeBlock,
                   codeBlockContent, codeBlockLanguage, listStack, calls, results,
                   githubUrl, atlas, inlineVars, pubVars, clientVars, labelVars>>

\* a fence line closes the open code block or opens one
CodeFence ==
    /\ InLoop /\ Kind = "fence"
    /\ IF inCodeBlock
       THEN /\ doc' = Append(doc, CodeBlockNode(codeBlockLanguage, codeBlockContent))
            /\ codeBlockContent' = <<>>
            /\ codeBlockLanguage' = ""
            /\ inCodeBlock' = FALSE
       ELSE /\ inCodeBlock' = TRUE
            /\ codeBlockLanguage' = FenceLanguage(lines[i])
            /\ UNCHANGED <<doc, codeBlockContent>>
    /\ i' = i + 1
    /\ UNCHANGED <<pc, markdown, options, lines, headingCount, listStack, calls,
                   results, githubUrl, atlas, inlineVars, pubVars, clientVars, labelVars>>

\* a line inside a code block is kept as it is
CodeLine ==
    /\ InLoop /\ Kind = "code"
    /\ codeBlockContent' = Append(codeBlockContent, lines[i])
    /\ i' = i + 1
    /\ UNCHANGED <<pc, markdown, options, lines, doc, headingCount, inCodeBlock,
                   codeBlockLanguage, listStack, calls, results, githubUrl, atlas,
                   inlineVars, pubVars, clientVars, labelVars>>

\* a table: the node is pushed and the loop goes on after its last line
TableStart ==
    /\ InLoop /\ Kind = "table"
    /\ \E t \in {parseTable(lines, i)} :
           /\ doc' = Append(doc, t.table)
           /\ i' = t.endIndex + 1
    /\ UNCHANGED <<pc, markdown, options, lines, headingCount, inCodeBlock,
                   codeBlockContent, codeBlockLanguage, listStack, calls, results,
                   githubUrl, atlas, inlineVars, pubVars, clientVars, labelVars>>

\* a list item
ListItem ==
    /\ InLoop /\ Kind = "list"
    /\ \E r \in {HandleListItem(listStack, doc, ListMatch(lines[i]))} :
           /\ listStack' = r.stack
           /\ doc' = r.doc
    /\ i' = i + 1
    /\ UNCHANGED <<pc, markdown, options, lines, headingCount, inCodeBlock,
                   codeBlockContent, codeBlockLanguage, calls, results,
                   githubUrl, atlas, inlineVars, pubVars, clientVars, labelVars>>

\* Any other line first closes all the open lists; block is what the line
\* itself then pushes (<<>> when it pushes nothing).
NonListLine(kind, block) ==
    /\ InLoop /\ Kind = kind
    /\ doc' = CloseAllAtNonListLine([stack |-> listStack, doc |-> doc]) \o block
    /\ listStack' = <<>>
    /\ i' = i + 1
    /\ UNCHANGED <<pc, markdown, options, lines, headingCount, inCodeBlock,
                   codeBlockContent, codeBlockLanguage, calls, results,
                   githubUrl, atlas, inlineVars, pubVars, clientVars, labelVars>>

Heading == NonListLine("heading", <<HeadingNode(HeadingMatch(lines[i]))>>)

Rule == NonListLine("rule", <<RuleNode>>)

Blank == NonListLine("blank", <<>>)

Image == NonListLine("image", <<ImageParagraph(ImageMatch(lines[i]))>>)

Placeholder ==
    NonListLine("placeholder", PlaceholderBlocks(PlaceholderContent(lines[i], 1)))

Paragraph == NonListLine("paragraph", <<ParagraphNode(lines[i])>>)

\* after the loop: the open lists are closed, the trailing empty paragraphs
\* removed, the table of contents put first and the document returned
Finish ==
    /\ pc = "loop" /\ i > Len(lines)
    /\ doc' = WithToc(StripTrailingEmpty(CloseAllAtEnd([stack |-> listStack,
                                                         doc |-> doc])),
                      shouldAddToc)
    /\ results' = Append(results, [markdown |-> markdown, options |-> options,
                                     content |-> doc'])
    /\ listStack' = <<>>
    /\ pc' = "done"
    /\ UNCHANGED <<markdown, options, lines, i, headingCount, inCodeBlock,
                   codeBlockContent, codeBlockLanguage, calls, githubUrl, atlas,
                   inlineVars, pubVars, clientVars, labelVars>>

\* the publisher passes the returned document to addWarningPanelToAtlas
AddWarningPanel(url) ==
    /\ pc = "done"
    /\ githubUrl' = url
    /\ atlas' = addWarningPanelToAtlas(doc, url)
    /\ pc' = "panel"
    /\ UNCHANGED <<markdown, options, lines, i, doc, headingCount, inCodeBlock,
                   codeBlockContent, codeBlockLanguage, listStack, calls, results,
                   inlineVars, pubVars, clientVars, labelVars>>

\* a call of parseInlineFormatting on its own
Tokenize(text) ==
    /\ inlineText' = text
    /\ inlineRuns' = parseInlineFormatting(text)
    /\ UNCHANGED <<convVars, pubVars, clientVars, labelVars>>

\* the loop body and the code after the loop
ConvertStep ==
    \/ SkipDirectiveLine
    \/ CodeFence
    \/ CodeLine
    \/ TableStart
    \/ ListItem
    \/ Heading
    \/ Rule
    \/ Blank
    \/ Image
    \/ Placeholder
    \/ Paragraph
    \/ Finish

(***************************************************************************)
(* publishMarkdownFile (index.js) with getOrCreateFolder and               *)
(* updateFolderWithWarning (hierarchy manager) and the page manager.  The  *)
(* file lies at most one directory deep; a response is its HTTP status.    *)
(***************************************************************************)
Responses == {200, 403, 500}

Created(status) == status = 200

\* a request that writes, with what its target was when it was sent: a page
\* that existed before the run (not fresh), with or without the label
Request(method, kind, target, page, version) ==
    [method |-> method, kind |-> kind, target |-> target,
     existing |-> page.exists /\ ~page.fresh, generated |-> page.generated,
     version |-> version]

\* updateFolderWithWarning: the folder page and the requests sent. panel says
\* that the page has the warning panel and no error panel (shouldUpdate is
\* false).
updateFolderWithWarning(folder, hasUrl, s) ==
    IF ~hasUrl \/ s.get # 200 \/ folder.panel
    THEN [folder |-> folder, sent |-> <<>>]
    ELSE [folder |-> IF s.put = 200
                     THEN [folder EXCEPT !.panel = TRUE, !.version = @ + 1]
                     ELSE folder,
          sent |-> <<Request("PUT", "content", "folder", folder, folder.version + 1)>>]

\* hasLabel: false when the lookup fails
hasLabel(page, status) == status = 200 /\ page.generated

\* addLabelToPage: the page and the requests sent
addLabelToPage(page, target, s) ==
    IF hasLabel(page, s.get) THEN [page |-> page, sent |-> <<>>]
    ELSE [page |-> IF Created(s.label) THEN [page EXCEPT !.generated = TRUE] ELSE page,
          sent |-> <<Request("POST", "label", target, page, page.version)>>]

\* the folder page a POST of /content creates
NewFolder(hasUrl) ==
    [exists |-> TRUE, generated |-> FALSE, panel |-> hasUrl, version |-> 1, fresh |-> TRUE]

CreatedFolder(folder, labelled) ==
    [folder |-> labelled.page,
     sent |-> <<Request("POST", "content", "folder", folder, 1)>> \o labelled.sent]

\* getOrCreateFolder: an existing folder is used and given the warning panel,
\* a missing one is created and labelled
getOrCreateFolder(folder, hasUrl, s) ==
    IF folder.exists THEN updateFolderWithWarning(folder, hasUrl, s)
    ELSE IF Created(s.post)
    THEN CreatedFolder(folder, addLabelToPage(NewFolder(hasUrl), "folder", [s EXCEPT !.get = 200]))
    ELSE [folder |-> folder, sent |-> <<Request("POST", "content", "folder", folder, 1)>>]

\* the responses of the server to the requests of one step
Replies == [get : Responses, put : Responses, post : Responses, label : Responses,
            delete : Responses, trash : Responses]

Files == [inSpace : BOOLEAN, inFolder : BOOLEAN, githubUrl : BOOLEAN, images : BOOLEAN]

\* the call: the space filter, then the conversion, on a Confluence space in
\* any state
PublishMarkdownFile(f, folder, page) ==
    /\ pubPc = "idle"
    /\ file' = f
    /\ folderPage' = folder
    /\ targetPage' = page
    /\ pubPc' = IF f.inSpace THEN "parent" ELSE "returned"
    /\ UNCHANGED <<existingPageId, existingVersion, canUpdate, publishedPageId, requests,
                   convVars, inlineVars, stats, clientVars, labelVars>>

\* hierarchyManager.getParentForPath
GetParentForPath(s) ==
    /\ pubPc = "parent"
    /\ \E r \in {IF file.inFolder
                 THEN getOrCreateFolder(folderPage, file.githubUrl, s)
                 ELSE [folder |-> folderPage, sent |-> <<>>]} :
           /\ folderPage' = r.folder
           /\ requests' = requests \o r.sent
    /\ pubPc' = "find"
    /\ UNCHANGED <<file, targetPage, existingPageId, existingVersion, canUpdate,
                   publishedPageId, convVars, inlineVars, stats, clientVars, labelVars>>

\* apiClient.findPageByTitle and the first lines of the branch for a page
\* that exists
FindExistingPage ==
    /\ pubPc = "find"
    /\ existingPageId' = targetPage.exists
    /\ existingVersion' = IF targetPage.exists THEN targetPage.version ELSE 0
    /\ pubPc' = IF targetPage.exists THEN "safe" ELSE "create"
    /\ UNCHANGED <<file, folderPage, targetPage, canUpdate, publishedPageId, requests,
                   convVars, inlineVars, stats, clientVars, labelVars>>

\* pageManager.isPageSafeToUpdate; a page that is not safe ends the call
IsPageSafeToUpdate(s) ==
    /\ pubPc = "safe"
    /\ canUpdate' = hasLabel(targetPage, s.get)
    /\ pubPc' = IF ~canUpdate' THEN "returned"
                ELSE IF targetPage.status # "current" THEN "status"
                ELSE "update"
    /\ UNCHANGED <<file, folderPage, targetPage, existingPageId, existingVersion,
                   publishedPageId, requests, convVars, inlineVars, stats, clientVars, labelVars>>

\* pageManager.handlePageStatus: an archived page is restored, a trashed one
\* deleted for good; a page that cannot be used makes the call create one
HandlePageStatus(s) ==
    /\ pubPc = "status"
    /\ IF targetPage.status = "archived"
       THEN /\ requests' = Append(requests, Request("POST", "restore", "page", targetPage,
                                                    targetPage.version))
            /\ targetPage' = IF s.post = 200 THEN [targetPage EXCEPT !.status = "current"]
                             ELSE targetPage
            /\ existingPageId' = (s.post = 200)
       ELSE /\ requests' = Append(requests, Request("DELETE", "content", "page", targetPage,
                                                    targetPage.version))
            /\ targetPage' = IF s.delete = 200 THEN [targetPage EXCEPT !.exists = FALSE]
                             ELSE targetPage
            /\ existingPageId' = FALSE
    /\ pubPc' = IF existingPageId' THEN "update" ELSE "create"
    /\ UNCHANGED <<file, folderPage, existingVersion, canUpdate, publishedPageId,
                   convVars, inlineVars, stats, clientVars, labelVars>>

\* pageManager.handle403Error: the page after it, the requests it sent and
\* whether the call can go on. The first DELETE is permanent, the second
\* moves the page to the trash.
handle403Error(page, s) ==
    IF s.delete = 200
    THEN [page |-> [page EXCEPT !.exists = FALSE], canContinue |-> TRUE,
          sent |-> <<Request("DELETE", "content", "page", page, page.version)>>]
    ELSE [page |-> IF s.trash = 200 THEN [page EXCEPT !.status = "trashed"] ELSE page,
          canContinue |-> s.trash = 200,
          sent |-> <<Request("DELETE", "content", "page", page, page.version),
                     Request("DELETE", "content", "page", page, page.version)>>]

UpdateDenied(r) ==
    /\ targetPage' = r.page
    /\ requests' = Append(requests, Request("PUT", "content", "page", targetPage,
                                            existingVersion + 1)) \o r.sent
    /\ existingPageId' = FALSE
    /\ publishedPageId' = "none"
    /\ pubPc' = IF r.canContinue THEN "create" ELSE "thrown"

\* "Update existing page": the PUT and what follows its response
UpdatePage(s) ==
    /\ pubPc = "update"
    /\ existingPageId /\ canUpdate
    /\ IF s.put = 403 THEN UpdateDenied(handle403Error(targetPage, s))
       ELSE /\ requests' = Append(requests, Request("PUT", "content", "page", targetPage,
                                                    existingVersion + 1))
            /\ targetPage' = IF s.put = 200
                             THEN [targetPage EXCEPT !.version = existingVersion + 1]
                             ELSE targetPage
            /\ publishedPageId' = IF s.put = 200 THEN "existing" ELSE "none"
            /\ pubPc' = IF s.put = 200 THEN "label" ELSE "thrown"
            /\ UNCHANGED existingPageId
    /\ UNCHANGED <<file, folderPage, existingVersion, canUpdate, convVars, inlineVars, stats, clientVars, labelVars>>

\* "Create new page"
CreatePage(s) ==
    /\ pubPc = "create"
    /\ publishedPageId = "none"
    /\ requests' = Append(requests, Request("POST", "content", "page",
                                            [targetPage EXCEPT !.exists = FALSE], 1))
    /\ IF Created(s.post)
       THEN /\ targetPage' = [exists |-> TRUE, generated |-> FALSE, status |-> "current",
                              version |-> 1, fresh |-> TRUE]
            /\ publishedPageId' = "new"
            /\ pubPc' = "label"
       ELSE /\ pubPc' = "thrown"
            /\ UNCHANGED <<targetPage, publishedPageId>>
    /\ UNCHANGED <<file, folderPage, existingPageId, existingVersion, canUpdate,
                   convVars, inlineVars, stats, clientVars, labelVars>>

\* "Add generated label"; the images are uploaded when there are any
AddLabel(s) ==
    /\ pubPc = "label"
    /\ publishedPageId # "none"
    /\ \E r \in {addLabelToPage(targetPage, "page", s)} :
           /\ targetPage' = r.page
           /\ requests' = requests \o r.sent
    /\ pubPc' = IF file.images THEN "followup" ELSE "returned"
    /\ UNCHANGED <<file, folderPage, existingPageId, existingVersion, canUpdate,
                   publishedPageId, convVars, inlineVars, stats, clientVars, labelVars>>

\* existingVersion ? existingVersion + 2 : 2
followUpVersion(version) == IF version # 0 THEN version + 2 ELSE 2

\* "Replace placeholders in the page content": the second PUT
ReplacePlaceholders(s) ==
    /\ pubPc = "followup"
    /\ requests' = Append(requests, Request("PUT", "content", "page", targetPage,
                                            followUpVersion(existingVersion)))
    /\ targetPage' = IF s.put = 200
                     THEN [targetPage EXCEPT !.version = followUpVersion(existingVersion)]
                     ELSE targetPage
    /\ pubPc' = "returned"
    /\ UNCHANGED <<file, folderPage, existingPageId, existingVersion, canUpdate,
                   publishedPageId, convVars, inlineVars, stats, clientVars, labelVars>>

\* publish: a file an exclude pattern matches is not published
ExcludeFile ==
    /\ pubPc = "idle"
    /\ stats' = [stats EXCEPT !.skipped = @ + 1]
    /\ pubPc' = "counted"
    /\ UNCHANGED <<file, folderPage, targetPage, existingPageId, existingVersion,
                   canUpdate, publishedPageId, requests, convVars, inlineVars, clientVars, labelVars>>

\* publish: publishMarkdownFile returned
CountSuccess ==
    /\ pubPc = "returned"
    /\ stats' = [stats EXCEPT !.success = @ + 1]
    /\ pubPc' = "counted"
    /\ UNCHANGED <<file, folderPage, targetPage, existingPageId, existingVersion,
                   canUpdate, publishedPageId, requests, convVars, inlineVars, clientVars, labelVars>>

\* publish: publishMarkdownFile threw
CountFailed ==
    /\ pubPc = "thrown"
    /\ stats' = [stats EXCEPT !.failed = @ + 1]
    /\ pubPc' = "counted"
    /\ UNCHANGED <<file, folderPage, targetPage, existingPageId, existingVersion,
                   canUpdate, publishedPageId, requests, convVars, inlineVars, clientVars, labelVars>>

(***************************************************************************)
(* findPageByTitle, searchPagesByTitle and getJsonResultCount              *)
(* (api-client.js, utils.js).  A response is [status, body]; status 0      *)
(* stands for a request that confluenceRequest throws on.  A body is a     *)
(* text (no JSON), an object without a results array, or an object with    *)
(* one; a page listing says how many pages it holds and whether one has    *)
(* the title.                                                              *)
(***************************************************************************)
NullPage == [kind |-> "null"]

EmptyResults == [kind |-> "results", results |-> <<>>]

\* a variant of getJsonResultCount that finds no result anywhere
getJsonResultCountZero(json) == 0

\* utils.getJsonResultCount
getJsonResultCount(json) ==
    IF json.kind \in {"null", "text"} THEN 0
    ELSE IF json.kind = "results" THEN Len(json.results)
    ELSE 0

\* response.status === 200 && response.body && typeof response.body === 'object'
IsJsonObject(response) == response.status = 200 /\ response.body.kind \notin {"null", "text"}

\* a lone surrogate, which a TLA+ string cannot hold: the model writes it as ^
LoneSurrogate == "^"

\* encodeURIComponent throws a URIError on a string with a lone surrogate
EncodeThrows(text) == Includes(text, LoneSurrogate)

\* a request was sent and answered
Sent(strategy, response) == Append(tried, [strategy |-> strategy, response |-> response])

\* findPageByTitle, up to the first request
FindPageByTitle(title) ==
    /\ findPc = "idle"
    /\ caller' = "find"
    /\ existingPage' = NullPage
    /\ resultCount' = 0
    /\ findPc' = IF EncodeThrows(title) THEN "thrown" ELSE "direct"
    /\ UNCHANGED <<start, tried, findResult, convVars, inlineVars, pubVars, labelVars>>

\* "Try direct lookup first"
DirectLookup(response) ==
    /\ findPc = "direct"
    /\ tried' = Sent("direct", response)
    /\ IF response.status # 0 /\ IsJsonObject(response) /\ getJsonResultCount(response.body) > 0
       THEN /\ resultCount' = getJsonResultCount(response.body)
            /\ existingPage' = response.body
       ELSE UNCHANGED <<resultCount, existingPage>>
    /\ findPc' = IF resultCount' = 0 THEN "cql" ELSE "validate"
    /\ UNCHANGED <<caller, start, findResult, convVars, inlineVars, pubVars, labelVars>>

\* searchPagesByTitle called on its own, up to the first request
SearchPagesByTitle(title) ==
    /\ findPc = "idle"
    /\ caller' = "search"
    /\ findPc' = IF EncodeThrows(title) THEN "thrown" ELSE "cql"
    /\ UNCHANGED <<existingPage, resultCount, start, tried, findResult,
                   convVars, inlineVars, pubVars, labelVars>>

\* searchPagesByTitle returns body: to its caller, or into findPageByTitle,
\* which goes on with the listing when the search found nothing
SearchReturns(body) ==
    IF caller = "search"
    THEN /\ findResult' = body
         /\ findPc' = "done"
         /\ UNCHANGED <<existingPage, resultCount, start>>
    ELSE /\ existingPage' = body
         /\ resultCount' = getJsonResultCount(body)
         /\ start' = 0
         /\ findPc' = IF resultCount' = 0 THEN "list" ELSE "validate"
         /\ UNCHANGED findResult

\* searchPagesByTitle: the query with the status filter
CqlWithStatus(response) ==
    /\ findPc = "cql"
    /\ tried' = Sent("cql", response)
    /\ IF response.status # 0 /\ IsJsonObject(response) /\ getJsonResultCount(response.body) > 0
       THEN SearchReturns(response.body)
       ELSE /\ findPc' = "cqlAll"
            /\ UNCHANGED <<existingPage, resultCount, start, findResult>>
    /\ UNCHANGED <<caller, convVars, inlineVars, pubVars, labelVars>>

\* searchPagesByTitle: the query without the status filter
CqlWithoutStatus(response) ==
    /\ findPc = "cqlAll"
    /\ tried' = Sent("cqlAll", response)
    /\ SearchReturns(IF response.status # 0 /\ IsJsonObject(response)
                     THEN response.body ELSE EmptyResults)
    /\ UNCHANGED <<caller, convVars, inlineVars, pubVars, labelVars>>

\* the page size of the listing and the offset after which it stops
ListLimit == 500

MaxStart == 10000

\* a variant of hasMore that goes on whatever the offset is
hasMoreAnyStart(currentSize, offset) == ~(currentSize < ListLimit)

\* hasMore after a page without a match:
\* if (currentSize < limit || start >= 10000) hasMore = false
hasMore(currentSize, offset) == ~(currentSize < ListLimit \/ offset >= MaxStart)

\* response.body.results?.length || 0
currentSize(body) == IF body.kind = "listing" THEN body.size ELSE 0

\* "Fallback: list all pages and filter by title": one request of the loop
ListPages(response) ==
    /\ findPc = "list"
    /\ tried' = Sent("list", response)
    /\ IF response.status # 0 /\ IsJsonObject(response)
       THEN IF response.body.kind = "listing" /\ response.body.match
            THEN /\ existingPage' = [kind |-> "results", results |-> <<"matchedPage">>]
                 /\ resultCount' = 1
                 /\ findPc' = "validate"
                 /\ UNCHANGED start
            ELSE /\ IF hasMore(currentSize(response.body), start)
                    THEN start' = start + ListLimit /\ UNCHANGED findPc
                    ELSE findPc' = "validate" /\ UNCHANGED start
                 /\ UNCHANGED <<existingPage, resultCount>>
       ELSE /\ findPc' = "validate"
            /\ UNCHANGED <<existingPage, resultCount, start>>
    /\ UNCHANGED <<caller, findResult, convVars, inlineVars, pubVars, labelVars>>

\* "Validate that existingPage is valid JSON" and the return
ReturnPage ==
    /\ findPc = "validate"
    /\ findResult' = IF existingPage.kind \notin {"null", "results"}
                     THEN [page |-> EmptyResults, count |-> 0]
                     ELSE [page |-> IF existingPage.kind = "null" THEN EmptyResults
                                    ELSE existingPage,
                           count |-> resultCount]
    /\ findPc' = "done"
    /\ UNCHANGED <<caller, existingPage, resultCount, start, tried,
                   convVars, inlineVars, pubVars, labelVars>>

(***************************************************************************)
(* The inputs and the specifications.                                      *)
(***************************************************************************)
\* the texts of at most n lines taken from pool
Docs(pool, n) ==
    {Join(seq, "\n") : seq \in UNION {[1..k -> pool] : k \in 0..n}}

\* lines of every kind the loop distinguishes
BlockPool ==
    {"<!--PPT_ONLY-->", Fence, Fence \o "js", "a|b", "-|-", "---", "- a", "# h", "",
     "![a](u)", "<ac:image-placeholder-viewid=\"v\"/>", "**b**"}

\* one conversion of a document of blocks, with the default options
ConvertBlocks ==
    /\ calls = 0
    /\ \E md \in Docs(BlockPool, MaxBlocks) : Convert(md, DefaultOptions)

Next == ConvertBlocks \/ ConvertStep

Spec == Init /\ [][Next]_vars

\* list items at three depths and of both kinds, and a line that is no item
ListPool == {"- a", "  - b", "    - c", "1. d", "x"}

\* one conversion of a document of list lines
ConvertLists ==
    /\ calls = 0
    /\ \E md \in Docs(ListPool, MaxLines) : Convert(md, DefaultOptions)

NextList == ConvertLists \/ ListItem \/ Paragraph \/ Finish

SpecList == Init /\ [][NextList]_vars

\* list items of both kinds at two depths, a line that is no item and a fence
KindPool == {"- a", "1. d", "  - b", "  1. e", "x", Fence}

\* one conversion of a document of list lines of both kinds
ConvertKinds ==
    /\ calls = 0
    /\ \E md \in Docs(KindPool, MaxLines) : Convert(md, DefaultOptions)

NextKind ==
    \/ ConvertKinds
    \/ ListItem
    \/ Paragraph
    \/ CodeFence
    \/ CodeLine
    \/ Finish

SpecKind == Init /\ [][NextKind]_vars

\* rows, a separator, a list item with a pipe and a line without a pipe
TablePool == {"a|b", "-|-", "- c|d", "x"}

\* one conversion of a document of table lines
ConvertTables ==
    /\ calls = 0
    /\ \E md \in Docs(TablePool, MaxTableLines) : Convert(md, DefaultOptions)

NextTable == ConvertTables \/ TableStart \/ ListItem \/ Paragraph \/ Finish

SpecTable == Init /\ [][NextTable]_vars

\* rows, one of them with an empty cell between two pipes, a separator and a
\* line without a pipe
CellPool == {"a|b", "a||b", "-|-", "x"}

\* one conversion of a document of table lines with empty cells
ConvertCells ==
    /\ calls = 0
    /\ \E md \in Docs(CellPool, MaxTableLines) : Convert(md, DefaultOptions)

NextCells == ConvertCells \/ TableStart \/ Paragraph \/ Finish

SpecCells == Init /\ [][NextCells]_vars

\* heading lines, a "#" without text, a paragraph and a fence
HeadingPool == {"# h", "#", "x", Fence}

TocOptions ==
    {DefaultOptions,
     [addTableOfContents |-> TRUE, tocThreshold |-> 2],
     [addTableOfContents |-> FALSE, tocThreshold |-> 2]}

GithubUrls == {"", "https://github.com/o/r/blob/main/f.md"}

\* one conversion of a document of headings, then the warning panel
ConvertHeadings ==
    /\ calls = 0
    /\ \E md \in Docs(HeadingPool, MaxHeadingLines), opts \in TocOptions : Convert(md, opts)

AddPanel == \E url \in GithubUrls : AddWarningPanel(url)

NextToc ==
    ConvertHeadings \/ Heading \/ Paragraph \/ CodeFence \/ CodeLine \/ Finish \/ AddPanel

SpecToc == Init /\ [][NextToc]_vars

\* a list item, a fence and a paragraph with a span
RepeatPool == {"- a", Fence, "**b**"}

\* a conversion after any other conversions
ConvertAgain ==
    /\ calls < MaxCalls
    /\ \E md \in Docs(RepeatPool, MaxRepeatLines) : Convert(md, DefaultOptions)

NextRepeat == ConvertAgain \/ ListItem \/ CodeFence \/ CodeLine \/ Paragraph \/ Finish

SpecRepeat == Init /\ [][NextRepeat]_vars

\* the pieces the lines given to parseInlineFormatting are made of
InlineTokens == {"a", BT, "*", "**", "_", "[", "](u)"}

RECURSIVE Concat(_)
Concat(seq) == IF Len(seq) = 0 THEN "" ELSE Head(seq) \o Concat(Tail(seq))

InlineLines ==
    {Concat(seq) : seq \in UNION {[1..k -> InlineTokens] : k \in 0..MaxInlineTokens}}

\* one call: nothing of a call is kept for the calls after it
TokenizeLine ==
    /\ inlineRuns = <<>>
    /\ \E text \in InlineLines : Tokenize(text)

NextInline == TokenizeLine

SpecInline == Init /\ [][NextInline]_vars

\* lines of any characters: text, a space, markers and the characters of a
\* placeholder token
MaxAnyTokens == 4

AnyTokens == {"a", " ", BT, "**", "[", "](u)", PlaceholderToken(0)}

AnyLines ==
    {Concat(seq) : seq \in UNION {[1..k -> AnyTokens] : k \in 0..MaxAnyTokens}}

TokenizeAnyLine ==
    /\ inlineRuns = <<>>
    /\ \E text \in AnyLines : Tokenize(text)

NextAny == TokenizeAnyLine

SpecAny == Init /\ [][NextAny]_vars

\* the pages a run can find: none, or one with or without the label
MaxVersion == 2

FolderPages ==
    {[exists |-> FALSE, generated |-> FALSE, panel |-> FALSE, version |-> 0, fresh |-> FALSE]}
        \cup {[exists |-> TRUE, generated |-> g, panel |-> p, version |-> 1, fresh |-> FALSE] :
                  g \in BOOLEAN, p \in BOOLEAN}

TargetPages ==
    {[exists |-> FALSE, generated |-> FALSE, status |-> "current", version |-> 0,
      fresh |-> FALSE]}
        \cup {[exists |-> TRUE, generated |-> g, status |-> st, version |-> v, fresh |-> FALSE] :
                  g \in BOOLEAN, st \in {"current", "archived", "trashed"},
                  v \in 1..MaxVersion}

\* one file is published
PublishFile ==
    \E f \in Files, folder \in FolderPages, page \in TargetPages :
        PublishMarkdownFile(f, folder, page)

ParentForPath == \E s \in Replies : GetParentForPath(s)

PageSafe == \E s \in Replies : IsPageSafeToUpdate(s)

PageStatus == \E s \in Replies : HandlePageStatus(s)

Update == \E s \in Replies : UpdatePage(s)

Create == \E s \in Replies : CreatePage(s)

Label == \E s \in Replies : AddLabel(s)

FollowUp == \E s \in Replies : ReplacePlaceholders(s)

NextPublish ==
    \/ PublishFile
    \/ ParentForPath
    \/ FindExistingPage
    \/ PageSafe
    \/ PageStatus
    \/ Update
    \/ Create
    \/ Label
    \/ FollowUp
    \/ ExcludeFile
    \/ CountSuccess
    \/ CountFailed

SpecPublish == Init /\ [][NextPublish]_vars


(***************************************************************************)
(* isPageSafeToUpdate (page-manager.js) with the labels of the page: labels *)
(* is the set of label names of the page, replies the status of the label   *)
(* lookup for each name asked for.                                         *)
(***************************************************************************)
\* CONFIG.generatedLabel
generatedLabel == "generated"

\* (process.env.PROTECTED_LABELS || 'manual,protected').split(',')
protectedLabels == <<"manual", "protected">>

\* hasLabel(pageId, labelName, auth): false when the lookup fails
hasLabelNamed(labels, labelName, status) == status = 200 /\ labelName \in labels

\* a label lookup that was sent and the status it got
Lookup(labelName, replies) == [label |-> labelName, status |-> replies[labelName]]

\* the lookups of the loop over the protected labels: all up to the first
\* label found
ProtectedLookups(labels, replies) ==
    IF hasLabelNamed(labels, protectedLabels[1], replies[protectedLabels[1]])
    THEN <<Lookup(protectedLabels[1], replies)>>
    ELSE <<Lookup(protectedLabels[1], replies), Lookup(protectedLabels[2], replies)>>

isPageSafeToUpdate(labels, replies) ==
    IF hasLabelNamed(labels, generatedLabel, replies[generatedLabel]) THEN TRUE
    ELSE IF \E k \in 1..Len(protectedLabels) :
                hasLabelNamed(labels, protectedLabels[k], replies[protectedLabels[k]])
    THEN FALSE
    ELSE FALSE

\* a call of isPageSafeToUpdate for a page with these labels
CheckPageSafe(labels, replies) ==
    /\ safePc = "idle"
    /\ pageLabels' = labels
    /\ safeResult' = isPageSafeToUpdate(labels, replies)
    /\ lookups' = IF safeResult' THEN <<Lookup(generatedLabel, replies)>>
                  ELSE <<Lookup(generatedLabel, replies)>>
                           \o ProtectedLookups(labels, replies)
    /\ safePc' = "done"
    /\ UNCHANGED <<convVars, inlineVars, pubVars, clientVars>>

\* the label names of a page, and the names the lookups are answered for
LabelNames == {"generated", "manual", "protected", "other"}

LookupNames == {"generated", "manual", "protected"}

CheckSafe ==
    \E labels \in SUBSET LabelNames, replies \in [LookupNames -> Responses] :
        CheckPageSafe(labels, replies)

NextLabels == CheckSafe

SpecLabels == Init /\ [][NextLabels]_vars

\* the titles: a plain one, one with a quote, one with a lone surrogate
Titles == {"T", "a\"b", "x" \o LoneSurrogate}

\* the bodies of a lookup or a search, and those of a page listing
MaxResults == 2

LookupBodies ==
    {[kind |-> "text"], [kind |-> "object"]}
        \cup {[kind |-> "results", results |-> [k \in 1..n |-> "page"]] : n \in 0..MaxResults}

ListingBodies ==
    {[kind |-> "text"], [kind |-> "object"]}
        \cup {b \in [kind : {"listing"}, size : {0, 1, ListLimit}, match : BOOLEAN] :
                  b.match => b.size > 0}

\* the requests that fail: thrown on (status 0), or answered with an error
\* status whatever the body
FailedResponses ==
    {[status |-> 0, body |-> [kind |-> "text"]],
     [status |-> 500, body |-> [kind |-> "text"]],
     [status |-> 500, body |-> [kind |-> "results", results |-> <<"page">>]]}

LookupResponses == FailedResponses \cup [status : {200}, body : LookupBodies]

ListingResponses == FailedResponses \cup [status : {200}, body : ListingBodies]

FindPage == \E title \in Titles : FindPageByTitle(title)

SearchPages == \E title \in Titles : SearchPagesByTitle(title)

Direct == \E response \in LookupResponses : DirectLookup(response)

Cql == \E response \in LookupResponses : CqlWithStatus(response)

CqlAll == \E response \in LookupResponses : CqlWithoutStatus(response)

List == \E response \in ListingResponses : ListPages(response)

NextClient ==
    \/ FindPage
    \/ SearchPages
    \/ Direct
    \/ Cql
    \/ CqlAll
    \/ List
    \/ ReturnPage

SpecClient == Init /\ [][NextClient]_vars

(***************************************************************************)
(* Properties.                                                             *)
(***************************************************************************)
Range(seq) == {seq[k] : k \in 1..Len(seq)}

\* the list nodes of a content sequence, those nested in list items included
RECURSIVE ListNodesIn(_)
ListNodesIn(content) ==
    UNION {IF n.type \in ListTypes
           THEN {n} \cup UNION {ListNodesIn(item.content) : item \in Range(n.content)}
           ELSE {} : n \in Range(content)}

\* lines p..q of the input are the pattern of the list-nesting property: an
\* item, one or more items of one kind at one deeper indentation, and an item
\* of the kind and indentation of the first that no deeper item follows
NestingPattern(p, q) ==
    /\ q > p + 1
    /\ \A m \in p..q : ListMatch(lines[m]).ok
    /\ ListMatch(lines[q]).indent = ListMatch(lines[p]).indent
    /\ ListTypeOf(ListMatch(lines[q]).marker) = ListTypeOf(ListMatch(lines[p]).marker)
    /\ \A m \in (p + 1)..(q - 1) :
           /\ ListMatch(lines[m]).indent > ListMatch(lines[p]).indent
           /\ ListMatch(lines[m]).indent = ListMatch(lines[p + 1]).indent
           /\ ListTypeOf(ListMatch(lines[m]).marker)
                  = ListTypeOf(ListMatch(lines[p + 1]).marker)
    /\ \/ q = Len(lines)
       \/ ~ListMatch(lines[q + 1]).ok
       \/ ListMatch(lines[q + 1]).indent <= ListMatch(lines[q]).indent

\* the first item of the pattern as the property describes it: its paragraph
\* and one nested list with exactly the deeper items, in source order
NestingItem(p, q) ==
    [type |-> "listItem",
     content |-> <<ListItemNode(ListMatch(lines[p]).content).content[1],
                   [type |-> ListTypeOf(ListMatch(lines[p + 1]).marker),
                    content |-> [m \in 1..(q - p - 1) |->
                                    ListItemNode(ListMatch(lines[p + m]).content)]]>>]

\* C1 -- List nesting: when the conversion has returned, for every item
\* followed by deeper items and then by an item of its kind at its
\* indentation, some list of the document, of that kind, holds the two items
\* next to each other and in order, the first with one nested list of exactly
\* the deeper items in source order, the second with its paragraph alone.
C1_ListNesting ==
    pc = "done" =>
        \A p \in 1..Len(lines), q \in 1..Len(lines) :
            NestingPattern(p, q) =>
                \E L \in ListNodesIn(doc) :
                    /\ L.type = ListTypeOf(ListMatch(lines[p]).marker)
                    /\ \E j \in 1..(Len(L.content) - 1) :
                           /\ L.content[j] = NestingItem(p, q)
                           /\ L.content[j + 1] = ListItemNode(ListMatch(lines[q]).content)

\* the texts of the runs, concatenated in order
RunText(runs) == Concat([k \in 1..Len(runs) |-> runs[k].text])

\* the characters of the formatting markers and of the URL of a link
MarkerChars == {BT, "*", "_", "[", "]", "(", ")", "u"}

\* out is line with some marker characters removed and no other change
RECURSIVE IsMarkerDeletion(_, _)
IsMarkerDeletion(out, line) ==
    IF line = "" THEN out = ""
    ELSE \/ /\ out # ""
            /\ Ch(out, 1) = Ch(line, 1)
            /\ IsMarkerDeletion(From(out, 2), From(line, 2))
         \/ /\ Ch(line, 1) \in MarkerChars
            /\ IsMarkerDeletion(out, From(line, 2))

\* C2 -- Text preservation: the texts of the runs parseInlineFormatting
\* returns for a line, concatenated in order, are the line with formatting
\* marker characters (and link URLs) removed: no other character is lost,
\* duplicated or replaced.
C2_TextPreservation ==
    inlineRuns # <<>> => IsMarkerDeletion(RunText(inlineRuns), inlineText)

\* The fenced blocks of the lines raw, read as the property reads them: a
\* fence line opens a block, the next fence line closes it, and the block is
\* the lines between the two.
RECURSIVE FencedBlocks(_, _, _, _, _)
FencedBlocks(raw, k, open, language, content) ==
    IF k > Len(raw) THEN <<>>
    ELSE IF IsFenceLine(raw[k]) /\ open
    THEN <<CodeBlockNode(language, content)>> \o FencedBlocks(raw, k + 1, FALSE, "", <<>>)
    ELSE IF IsFenceLine(raw[k])
    THEN FencedBlocks(raw, k + 1, TRUE, FenceLanguage(raw[k]), <<>>)
    ELSE FencedBlocks(raw, k + 1, open, language,
                      IF open THEN Append(content, raw[k]) ELSE content)

IsCodeBlock(node) == node.type = "codeBlock"

\* C3 -- Code-block verbatim: when the conversion has returned, the codeBlock
\* nodes of the document are, in order, the fenced blocks of the input: one
\* node per block, its text the lines between the two fences joined with
\* newlines, none altered or dropped, its language the text after the opening
\* fence or 'plain'.
C3_CodeBlockVerbatim ==
    pc = "done" =>
        SelectSeq(doc, IsCodeBlock) = FencedBlocks(Split(markdown, "\n"), 1, FALSE, "", <<>>)

OutsideCode(k) ==
    /\ ~IsFenceLine(lines[k])
    /\ ~IsDirectiveLine(lines[k])
    /\ Cardinality({m \in 1..(k - 1) : IsFenceLine(lines[m]) /\ ~IsDirectiveLine(lines[m])}) % 2 = 0

\* a line that always leaves a block: a heading, a rule or a list item
IsBlockLine(line) == HeadingMatch(line).ok \/ IsRule(line) \/ ListMatch(line).ok

ParsedRows(k) ==
    {m \in k..(FirstWhere(k, Len(lines), LAMBDA n : ~Includes(lines[n], "|")) - 1) :
        ~IsSeparatorRow(lines[m]) /\ Len(RowCells(lines[m])) > 0}

IsTable(node) == node.type = "table"

\* the loop is at a candidate table: a pipe line, outside the code blocks,
\* with a separator line below
AtTableCandidate ==
    /\ InLoop
    /\ ~inCodeBlock
    /\ ~IsDirectiveLine(lines[i])
    /\ ~IsFenceLine(lines[i])
    /\ IsTableCandidate(lines, i)

\* C7 -- Table minimum rows: a step at a candidate table with fewer than 2
\* parsed rows adds no table node and goes on with the next line, as the step
\* of any other line does; a step at a candidate with 2 rows or more adds
\* exactly one table node.
C7_TableMinimumRows ==
    [][AtTableCandidate =>
          IF Cardinality(ParsedRows(i)) < 2
          THEN /\ i' = i + 1
               /\ Len(SelectSeq(doc', IsTable)) = Len(SelectSeq(doc, IsTable))
          ELSE /\ Len(doc') = Len(doc) + 1
               /\ SubSeq(doc', 1, Len(doc)) = doc
               /\ IsTable(doc'[Len(doc')])
               /\ i' > i]_vars

\* a candidate with one row was handled as a paragraph line
C7_Witness ==
    /\ pc = "loop"
    /\ i = 2
    /\ IsTableCandidate(lines, 1)
    /\ Cardinality(ParsedRows(1)) = 1
    /\ doc = <<ParagraphNode(lines[1])>>

IsHeading(node) == node.type = "heading"

IsToc(node) == node.type = "extension" /\ node.attrs.extensionKey = "toc"

HasToc(content) == \E k \in 1..Len(content) : IsToc(content[k])

\* C5 -- TOC boundary: with addTableOfContents the returned document has a
\* table-of-contents node exactly when it has at least tocThreshold headings,
\* and that node is then the first block; without addTableOfContents it has
\* none.
C5_TocBoundary ==
    pc = "done" =>
        IF options.addTableOfContents
        THEN /\ HasToc(doc) <=> Len(SelectSeq(doc, IsHeading)) >= options.tocThreshold
             /\ HasToc(doc) => IsToc(doc[1])
        ELSE ~HasToc(doc)

\* the line is one code span: a backtick, an inner text without backticks that
\* holds a bold, italic or link marker, a backtick
IsOneCodeSpan(text) ==
    /\ Len(text) >= 3
    /\ Ch(text, 1) = BT
    /\ Ch(text, Len(text)) = BT
    /\ \A k \in 2..(Len(text) - 1) : Ch(text, k) # BT
    /\ \E k \in 2..(Len(text) - 1) : Ch(text, k) \in {"*", "_", "[", "]"}

HasCodeMark(run) ==
    /\ "marks" \in DOMAIN run
    /\ \E k \in 1..Len(run.marks) : run.marks[k].type = "code"

\* C8 -- Mark priority: for a line that is one code span whose inner text
\* holds bold, italic or link markers, parseInlineFormatting returns one run,
\* marked with code only, whose text is the inner text with the markers kept;
\* and no run with the code mark has any other mark.
C8_MarkPriority ==
    /\ IsOneCodeSpan(inlineText) =>
           inlineRuns = <<[type |-> "text",
                           text |-> SubSeq(inlineText, 2, Len(inlineText) - 1),
                           marks |-> <<[type |-> "code"]>>]>>
    /\ \A k \in 1..Len(inlineRuns) :
           HasCodeMark(inlineRuns[k]) => inlineRuns[k].marks = <<[type |-> "code"]>>

\* the span `**a**` was tokenized
C8_Witness ==
    /\ inlineText = BT \o "**a**" \o BT
    /\ Len(inlineRuns) = 1
    /\ inlineRuns[1].text = "**a**"

IsWarningPanel(node) == node.type = "panel" /\ node.attrs.panelType = "warning"

\* C9 -- Final block order: addWarningPanelToAtlas returns the document
\* unchanged when there is no GitHub URL; with a URL, for a document whose
\* first block is the table of contents, it returns the warning panel, then
\* the table of contents, then the other blocks in their order.
C9_FinalBlockOrder ==
    pc = "panel" =>
        IF githubUrl = "" THEN atlas = doc
        ELSE HasToc(doc) =>
                 /\ Len(atlas) = Len(doc) + 1
                 /\ IsWarningPanel(atlas[1])
                 /\ IsToc(atlas[2])
                 /\ SubSeq(atlas, 3, Len(atlas)) = Tail(doc)
                 /\ \A k \in 3..Len(atlas) : ~IsToc(atlas[k]) /\ ~IsWarningPanel(atlas[k])

\* the panel was added to a document with a table of contents and headings
C9_Witness ==
    /\ pc = "panel"
    /\ githubUrl # ""
    /\ Len(doc) >= 3
    /\ IsToc(doc[1])
    /\ Len(atlas) = Len(doc) + 1

\* C10 -- Determinism: two calls of convertMarkdownToAtlasDoc with the same
\* text and the same options returned the same document, whatever calls were
\* made between them.
C10_Determinism ==
    \A a, b \in 1..Len(results) :
        (results[a].markdown = results[b].markdown /\ results[a].options = results[b].options)
            => results[a].content = results[b].content

\* the same list was converted before and after a text whose fence is never
\* closed
C10_Witness ==
    /\ Len(results) = 3
    /\ results[1].markdown = "- a"
    /\ results[2].markdown = Fence \o "\n- a"
    /\ results[3].markdown = "- a"
    /\ results[3].content # <<>>

IsWrite(q) == q.method \in {"PUT", "DELETE"} \/ q.kind = "restore"

\* C6 -- Generated-page protection: every PUT, restore and DELETE the
\* publisher sends to a page that existed before the run goes to a page that
\* carries the generated label, the folder pages included.
C6_GeneratedPageProtection ==
    \A k \in 1..Len(requests) :
        (IsWrite(requests[k]) /\ requests[k].existing) => requests[k].generated

\* C11 -- Publish statistics: a file publishMarkdownFile skipped (its page is
\* not safe to update, or its space is not the filter's) is counted as skipped
\* and not as success; success counts the files created or updated.
C11_PublishStatistics ==
    pubPc = "counted" =>
        /\ stats.success = (IF publishedPageId # "none" THEN 1 ELSE 0)
        /\ (stats.failed = 0 /\ publishedPageId = "none") => stats.skipped = 1

Rank(strategy) ==
    IF strategy = "direct" THEN 1 ELSE IF strategy \in {"cql", "cqlAll"} THEN 2 ELSE 3

\* the request found the page: an HTTP 200 body with results in it, or a
\* listing with the page
Found(t) ==
    /\ t.response.status = 200
    /\ \/ t.response.body.kind = "results" /\ Len(t.response.body.results) > 0
       \/ t.response.body.kind = "listing" /\ t.response.body.match

\* C12 -- findPageByTitle lookup chain: the requests go out in the order
\* direct lookup, CQL search, page listing; a later strategy is tried only
\* when no request of an earlier one found a result; and the value returned
\* has an array page.results and count equal to its length.
C12_LookupChain ==
    caller = "find" =>
        /\ tried # <<>> => tried[1].strategy = "direct"
        /\ \A j, k \in 1..Len(tried) :
               j < k => /\ Rank(tried[j].strategy) <= Rank(tried[k].strategy)
                        /\ Rank(tried[j].strategy) < Rank(tried[k].strategy) => ~Found(tried[j])
        /\ findPc = "done" =>
               /\ findResult.page.kind = "results"
               /\ findResult.count = Len(findResult.page.results)

\* the page was found by the listing after the lookup and the search found
\* nothing
C12_Witness ==
    /\ caller = "find" /\ findPc = "done"
    /\ Len(tried) >= 4
    /\ tried[Len(tried)].strategy = "list"
    /\ findResult.count = 1

\* the body of an HTTP 200 response that is a JSON object
IsOkObject(t) == t.response.status = 200 /\ t.response.body.kind \in {"object", "results"}

\* what searchPagesByTitle returns after its requests
SearchOutcome ==
    IF IsOkObject(tried[1]) /\ Found(tried[1])
    THEN Len(tried) = 1 /\ findResult = tried[1].response.body
    ELSE /\ Len(tried) = 2
         /\ tried[2].strategy = "cqlAll"
         /\ IsOkObject(tried[2]) => findResult = tried[2].response.body
         /\ (~IsOkObject(tried[1]) /\ ~IsOkObject(tried[2])) => findResult = EmptyResults

\* C13 -- searchPagesByTitle never rejects for a string title: it returns the
\* body of the query with the status filter only if that is HTTP 200 with a
\* result, otherwise it sends the query without the filter, and it returns
\* {results: []} when neither request gave an HTTP 200 JSON object.
C13_SearchNeverRejects ==
    caller = "search" =>
        /\ findPc # "thrown"
        /\ findPc = "done" => SearchOutcome

\* no pass of the tokenizer finds a span in the line
NoSpan(line) == Substitute(line).ph = <<>>

\* C14 -- Tokenizer totality: a call of parseInlineFormatting returns at
\* least one run for a line that is not empty, and for a line without any
\* recognised span it returns one unmarked run whose text is the whole line.
C14_TokenizerTotality ==
    [][/\ inlineText' # "" => Len(inlineRuns') > 0
       /\ NoSpan(inlineText') => inlineRuns' = <<[type |-> "text", text |-> inlineText']>>
      ]_inlineVars

\* the number of characters c in text
Count(text, c) == Cardinality({k \in 1..Len(text) : Ch(text, k) = c})

\* the characters c of the line form one marker: one run of one or two c
OneMarker(line, c) ==
    /\ Count(line, c) \in {1, 2}
    /\ \A j, k \in 1..Len(line) :
           (j < k /\ Ch(line, j) = c /\ Ch(line, k) = c) => k = j + 1

HasMark(run, types) ==
    /\ "marks" \in DOMAIN run
    /\ \E k \in 1..Len(run.marks) : run.marks[k].type \in types

NoMark(runs, types) == \A k \in 1..Len(runs) : ~HasMark(runs[k], types)

\* the marker made of c is kept in the text of the runs and no run has a mark
\* of these types
Literal(c, types) ==
    /\ NoMark(inlineRuns, types)
    /\ Count(RunText(inlineRuns), c) = Count(inlineText, c)

\* C15 -- Unbalanced inline markers: for a line whose only backtick, whose
\* only run of asterisks or underscores (with no marker of the other
\* character), or whose only bracket has no closing marker, the runs
\* parseInlineFormatting returns have no mark of that marker's kind and their
\* text holds the marker characters.
C15_UnbalancedMarkers ==
    inlineRuns # <<>> =>
        /\ Count(inlineText, BT) = 1 => Literal(BT, {"code"})
        /\ (OneMarker(inlineText, "*") /\ Count(inlineText, "_") = 0)
               => Literal("*", {"strong", "em"})
        /\ (OneMarker(inlineText, "_") /\ Count(inlineText, "*") = 0)
               => Literal("_", {"strong", "em"})
        /\ (Count(inlineText, "[") = 1 /\ Count(inlineText, "]") = 0)
               => Literal("[", {"link"})

\* the number of list items in a content sequence, those of nested lists
\* included
RECURSIVE ItemCount(_), ItemsOf(_), StackItems(_)
ItemCount(content) ==
    IF content = <<>> THEN 0
    ELSE (IF Head(content).type \in ListTypes THEN ItemsOf(Head(content).content) ELSE 0)
             + ItemCount(Tail(content))

ItemsOf(items) ==
    IF items = <<>> THEN 0
    ELSE 1 + ItemCount(Head(items).content) + ItemsOf(Tail(items))

\* the number of list items the open frames hold
StackItems(stack) ==
    IF stack = <<>> THEN 0
    ELSE ItemsOf(Head(stack).items) + StackItems(Tail(stack))

\* a step of the loop in which a line that is no list item closes open frames
ClosedByNonListLine ==
    /\ pc = "loop" /\ i' = i + 1
    /\ listStack # <<>> /\ listStack' = <<>>

\* C16 -- Closing by a non-list line: when a line that is no list item closes
\* the open frames, every item the frames held, the items of nested frames
\* included, is in the document afterwards.
C16_ClosingByNonListLine ==
    [][ClosedByNonListLine => ItemCount(doc') = ItemCount(doc) + StackItems(listStack)]_convVars

\* C17 -- List-frame stack invariant: after every processed line the indents
\* of the open frames are strictly increasing from the bottom of the stack to
\* its top.
C17_StackIndentsIncreasing ==
    \A j, k \in 1..Len(listStack) : j < k => listStack[j].indent < listStack[k].indent

\* three frames are open, and the line before was an item shallower than the
\* one before it, so that deeper frames were closed on the way
C17_Witness ==
    /\ pc = "loop" /\ i > 3
    /\ Len(listStack) = 3
    /\ \E k \in 2..(i - 2) :
           /\ ListMatch(lines[k]).ok /\ ListMatch(lines[k - 1]).ok
           /\ ListMatch(lines[k]).indent < ListMatch(lines[k - 1]).indent

\* the list items of a content sequence, those of nested lists included
ListItemsIn(content) == UNION {Range(L.content) : L \in ListNodesIn(content)}

\* one paragraph, optionally followed by one list node
IsItemShape(c) ==
    /\ Len(c) \in {1, 2}
    /\ c[1].type = "paragraph"
    /\ Len(c) = 2 => c[2].type \in ListTypes

\* C18 -- List item shape: in the document the conversion returned, the
\* content of every list item is one paragraph, optionally followed by one
\* nested list node and by nothing else.
C18_ListItemShape ==
    pc = "done" => \A item \in ListItemsIn(doc) : IsItemShape(item.content)

\* the lines the property names: those that are no list item, outside a code
\* block
NonListKinds ==
    {"blank", "heading", "rule", "paragraph", "image", "placeholder", "table", "fence"}

\* C19 -- Non-list lines close lists: after a step of the loop that consumes,
\* outside a code block, a blank line, a heading, a rule, a paragraph, an
\* image, the start of a table or a code-fence line, no list frame is open.
C19_NonListLinesCloseLists ==
    [][(InLoop /\ ~inCodeBlock /\ Kind \in NonListKinds) => listStack' = <<>>]_convVars

\* the stack and the document when the frames deeper than the item of line i
\* have been closed
AfterDeeper ==
    CloseDeeper([stack |-> listStack, doc |-> doc], ListMatch(lines[i]).indent)

\* line i is a list item of the indent of the frame then on top, and of the
\* other kind
KindChange ==
    /\ InLoop /\ Kind = "list"
    /\ Len(AfterDeeper.stack) > 0
    /\ Top(AfterDeeper.stack).indent = ListMatch(lines[i]).indent
    /\ Top(AfterDeeper.stack).type # ListTypeOf(ListMatch(lines[i]).marker)

\* the list of the closed frame, with all its items, is the last node of the
\* document, or the node before the new list in the parent item
Spliced(r, m) ==
    IF Len(r.stack) = 1
    THEN doc' = Append(r.doc, ListNode(Top(r.stack)))
    ELSE /\ doc' = r.doc
         /\ \E c \in {LastItemContent(Pop(listStack'))} :
                /\ Len(c) >= 2
                /\ c[Len(c) - 1] = ListNode(Top(r.stack))
                /\ c[Len(c)] = [type |-> ListTypeOf(m.marker), content |-> <<>>]

\* the step of a kind change: the frame on top is replaced by a frame of the
\* new kind that holds the new item alone
KindChangeEffect(r, m) ==
    /\ Len(listStack') = Len(r.stack)
    /\ Pop(Pop(listStack')) = Pop(Pop(r.stack))
    /\ Top(listStack').type = ListTypeOf(m.marker)
    /\ Top(listStack').indent = m.indent
    /\ Top(listStack').items = <<ListItemNode(m.content)>>
    /\ Spliced(r, m)

\* lines p and p + 1 are list items of one indent and of different kinds,
\* outside a code block
FencesBefore(p) == Cardinality({k \in 1..p : IsFenceLine(lines[k])})

KindChangeAt(p) ==
    /\ p + 1 <= Len(lines)
    /\ FencesBefore(p) % 2 = 0
    /\ ListMatch(lines[p]).ok /\ ListMatch(lines[p + 1]).ok
    /\ ListMatch(lines[p]).indent = ListMatch(lines[p + 1]).indent
    /\ ListTypeOf(ListMatch(lines[p]).marker) # ListTypeOf(ListMatch(lines[p + 1]).marker)

\* the content sequences of a document: its own and those of its list items
ContentsIn(content) == {content} \cup {item.content : item \in ListItemsIn(content)}

\* the paragraph of the item of line p
ItemParagraph(p) == ListItemNode(ListMatch(lines[p]).content).content[1]

\* no item of the list has this paragraph
NotIn(list, paragraph) == \A item \in Range(list.content) : item.content[1] # paragraph

\* the document holds two adjacent lists, the first of the kind of line p and
\* ending with its item, the second of the kind of line p + 1, and neither
\* holds the item of the other line
TwoAdjacentLists(p) ==
    \E c \in ContentsIn(doc) : \E k \in 1..(Len(c) - 1) :
        /\ c[k].type = ListTypeOf(ListMatch(lines[p]).marker)
        /\ c[k + 1].type = ListTypeOf(ListMatch(lines[p + 1]).marker)
        /\ Len(c[k].content) > 0
        /\ c[k].content[Len(c[k].content)] = ListItemNode(ListMatch(lines[p]).content)
        /\ NotIn(c[k], ItemParagraph(p + 1))
        /\ NotIn(c[k + 1], ItemParagraph(p))

\* the step of the property alone
KindChangeStep ==
    [][KindChange => KindChangeEffect(AfterDeeper, ListMatch(lines[i]))]_convVars

\* the output of the property alone
KindChangeOutput ==
    [](pc = "done" => \A p \in 1..Len(lines) : KindChangeAt(p) => TwoAdjacentLists(p))

\* C20 -- Same-depth kind change: a list item of the indent of the top frame
\* and of the other kind closes that frame, splices its list with all its
\* items into the document or the parent item, and opens a frame of the new
\* kind at that indent with the new item alone; the returned document holds
\* the two lists next to each other, each with its own item.
C20_SameDepthKindChange == KindChangeStep /\ KindChangeOutput

\* the lines from p to q - 1 that make a row of a table
RowLines(p, q) ==
    {k \in p..(q - 1) : ~IsSeparatorRow(lines[k]) /\ Len(RowCells(lines[k])) > 0}

\* C21 -- Table line consumption: the step that accepts a table at line i
\* pushes one table and moves the loop to the first line after i without a
\* pipe (or past the last line); every line in between has a pipe and the
\* table has one row for each of them that is a row.
C21_TableLineConsumption ==
    [][(InLoop /\ Kind = "table") =>
           /\ i' > i
           /\ i' <= Len(lines) + 1
           /\ \A k \in i..(i' - 1) : Includes(lines[k], "|")
           /\ i' <= Len(lines) => ~Includes(lines[i'], "|")
           /\ Len(doc') = Len(doc) + 1
           /\ doc'[Len(doc')].type = "table"
           /\ Len(doc'[Len(doc')].content) = Cardinality(RowLines(i, i'))
      ]_convVars

\* a table was accepted and the loop is at the line without a pipe after it
C21_Witness ==
    /\ InLoop /\ i > 2
    /\ doc # <<>> /\ doc[Len(doc)].type = "table"
    /\ Includes(lines[i - 1], "|")
    /\ ~Includes(lines[i], "|")

\* every cell of the row has this type
CellsAre(row, type) ==
    /\ row.type = "tableRow"
    /\ \A k \in 1..Len(row.content) : row.content[k].type = type

\* the row a line would make, as header or not
RowOf(line, isHeader) ==
    [type |-> "tableRow", content |-> CellNodes(RowCells(line), isHeader)]

\* no row of the table is made of a separator line of the input
NoSeparatorRow(table) ==
    \A j \in 1..Len(table.content), k \in 1..Len(lines) :
        IsSeparatorRow(lines[k]) =>
            table.content[j] \notin {RowOf(lines[k], TRUE), RowOf(lines[k], FALSE)}

\* C22 -- Table header flag: in every table node of the document the cells of
\* the first row are tableHeader nodes, the cells of every later row are
\* tableCell nodes, and no row is made of a separator line.
C22_TableHeaderFlag ==
    \A n \in 1..Len(doc) :
        doc[n].type = "table" =>
            /\ CellsAre(doc[n].content[1], "tableHeader")
            /\ \A j \in 2..Len(doc[n].content) : CellsAre(doc[n].content[j], "tableCell")
            /\ NoSeparatorRow(doc[n])

\* a table of three rows with a separator line below the header was emitted
C22_Witness ==
    /\ pc = "done"
    /\ \E n \in 1..Len(doc) : doc[n].type = "table" /\ Len(doc[n].content) = 3
    /\ Len(lines) = 4 /\ IsSeparatorRow(lines[2])

\* a step of the loop pushes the block of a construct that is no list while
\* a list that started before it is still open, and so not yet in the document
PushedBeforeOpenList ==
    /\ InLoop /\ Kind # "list"
    /\ Len(doc') > Len(doc)
    /\ listStack' # <<>>

\* line p is a list item and line p + 1 starts a code block that is closed
\* later, or a table
ListThenBlock(p) ==
    /\ p + 1 <= Len(lines)
    /\ FencesBefore(p) % 2 = 0
    /\ LineKind(lines, p, FALSE) = "list"
    /\ \/ LineKind(lines, p + 1, FALSE) = "table"
       \/ /\ LineKind(lines, p + 1, FALSE) = "fence"
          /\ \E q \in (p + 2)..Len(lines) : IsFenceLine(lines[q])

\* the document has a list with the item of line p before a code block or a
\* table
ListBeforeBlock(p) ==
    \E j, k \in 1..Len(doc) :
        /\ j < k
        /\ doc[j].type \in ListTypes
        /\ ListItemNode(ListMatch(lines[p]).content) \in ListItemsIn(<<doc[j]>>)
        /\ doc[k].type \in {"codeBlock", "table"}

\* the steps of the property alone
BlockOrderStep == [][~PushedBeforeOpenList]_convVars

\* C23 -- Block order follows source order: no block is pushed to the document
\* while a list that started earlier is still to be pushed, and in the
\* returned document a list immediately followed by a fenced code block or a
\* table stands before that code block or table.
C23_BlockOrder ==
    /\ BlockOrderStep
    /\ [](pc = "done" => \A p \in 1..Len(lines) : ListThenBlock(p) => ListBeforeBlock(p))

\* the step that sends the follow-up PUT
FollowUpSent == pubPc = "followup" /\ pubPc' = "returned"

\* C24 -- Page version sequencing: the follow-up PUT carries the version the
\* page has after the first write of the run (1 after a create,
\* existingVersion + 1 after an update) plus one.
C24_PageVersionSequencing ==
    [][FollowUpSent =>
           /\ targetPage.version
                  = (IF publishedPageId = "new" THEN 1 ELSE existingVersion + 1)
           /\ requests'[Len(requests')].method = "PUT"
           /\ requests'[Len(requests')].version = targetPage.version + 1
      ]_pubVars

\* the number of heading nodes of the document
HeadingNodes == Cardinality({k \in 1..Len(doc) : doc[k].type = "heading"})

\* C25 -- TOC heading count matches emitted headings: when the conversion
\* has returned, the count countHeadings gave for the TOC decision is the
\* number of heading nodes of the document.
C25_HeadingCount == pc = "done" => headingCount = HeadingNodes

\* C26 -- Protected labels win: isPageSafeToUpdate does not return true for a
\* page that has one of the protected labels, whatever its other labels.
C26_ProtectedLabelsWin ==
    (safePc = "done" /\ \E k \in 1..Len(protectedLabels) : protectedLabels[k] \in pageLabels)
        => ~safeResult

\* the text nodes of a content sequence, at any depth
RECURSIVE TextNodesIn(_)
TextNodesIn(content) ==
    UNION {IF n.type = "text" THEN {n}
           ELSE IF "content" \in DOMAIN n THEN TextNodesIn(n.content)
           ELSE {} : n \in Range(content)}

\* C27 -- No empty text nodes: the document the conversion returned has no
\* text node whose text has length zero, at any depth.
C27_NoEmptyTextNodes ==
    pc = "done" => \A n \in TextNodesIn(doc) : n.text # ""

\* C28 -- Sentinel containment: for a line without the character U+0001, no
\* run parseInlineFormatting returns has a text with a placeholder token in
\* it: none has the character U+0001 every token starts and ends with.
C28_SentinelContainment ==
    (inlineRuns # <<>> /\ ~Includes(inlineText, SOH)) =>
        \A k \in 1..Len(inlineRuns) :
            ~Includes(inlineRuns[k].text, SOH)

\* C29 -- Open frames are never empty: after every processed line every list
\* frame on the stack holds at least one item.
C29_OpenFramesNotEmpty ==
    \A k \in 1..Len(listStack) : Len(listStack[k].items) > 0

\* two frames are open, the upper one opened by a kind change inside an item
\* that already had a nested list
C29_Witness ==
    /\ pc = "loop"
    /\ Len(listStack) = 2
    /\ Top(listStack).type = "orderedList"
    /\ Len(LastItemContent(Pop(listStack))) = 3

IsListRequest(t) == t.strategy = "list"

\* the requests of the listing loop sent so far, in order
ListRequests == SelectSeq(tried, IsListRequest)

\* the most requests the listing loop sends: start = 0, 500, ..., 10000
MaxListRequests == MaxStart \div ListLimit + 1

\* the response ends the loop: the request threw (status 0), the response is
\* no HTTP 200 with a JSON object, the page holds a title match, or it has
\* fewer results than the limit
EndsListing(response) ==
    \/ response.status # 200
    \/ response.body.kind # "listing"
    \/ response.body.match
    \/ response.body.size < ListLimit

\* C30 -- List-all fallback terminates: the listing loop sends at most 21
\* requests, the k-th with start = 500 * (k - 1), and the first response that
\* ends the loop is the last one it gets.
C30_ListingTerminates ==
    /\ Len(ListRequests) <= MaxListRequests
    /\ start <= MaxStart
    /\ findPc = "list" =>
           /\ start = ListLimit * Len(ListRequests)
           /\ \A k \in 1..Len(ListRequests) : ~EndsListing(ListRequests[k].response)
    /\ findPc # "list" =>
           \A k \in 1..(Len(ListRequests) - 1) : ~EndsListing(ListRequests[k].response)

\* the loop went through all its 21 requests
C30_Witness ==
    /\ findPc = "done"
    /\ Len(ListRequests) = MaxListRequests
    /\ start = MaxStart

====
